---- MODULE Spec2Model ----
(***************************************************************************)
(* Model of the HELLSPHERE location-intelligence code:                     *)
(*   - the TLE parser and the closest-approach search of the               *)
(*     location-info route (src/unnamed/part_003),                         *)
(*   - the location-info GET handler (src/unnamed/part_003),               *)
(*   - the search effect of the globe control panel                        *)
(*     (src/ui/src/components/GlobeControlPanel.tsx) over the globe store  *)
(*     (src/ui/src/stores/globeStore.ts),                                  *)
(*   - the aggregation of the globe store: weather samples, heatmap,       *)
(*     weather cells, timeline and route arcs (globeStore.ts:293-530),     *)
(*   - the store's timeline fields and recent queries with the refresh     *)
(*     and playback effects of GlobeDataProvider                           *)
(*     (src/ui/src/components/SettingsPanel.tsx:301-373),                  *)
(*   - the http-server route (src/ui/src/app/api/http-server/route.ts),    *)
(*   - the upload button and the analysis store                            *)
(*     (src/ui/src/components/UploadButton.tsx),                           *)
(*   - the projections of a place onto the globe                           *)
(*     (GlobeScene.tsx:34-43, part_001:67-76, Satellite.tsx:73-81).        *)
(*                                                                         *)
(* Text is modelled as sequences of one-character strings, distances as    *)
(* integers in hundredths of a kilometre (so that rounding to 0.1 km is a  *)
(* real computation), times as seconds after "now".                        *)
(***************************************************************************)
EXTENDS Integers, Sequences, FiniteSets, TLC

VARIABLES
    \* ---- parseTleSets ----
    tleBlocks,      \* how the input text was composed (triplets and free lines)
    tleText,        \* the text as its lines, tleText.split(/\r?\n/)
    tleSets,        \* the value parseTleSets returned
    tlePc,          \* "input" before the call, "done" after it
    \* ---- computeSatellitePasses ----
    tles,           \* the records computeSatellitePasses is called with
    passes,         \* the list it returned
    passPc,         \* "input" before the call, "done" after it
    \* ---- the location-info GET handler ----
    reqParams,      \* the latitude / longitude query parameters: "ok", "missing", "invalid"
    feedStatus,     \* how each upstream fetch ends: "ok", "http_error", "network_error"
    reverseElevation,   \* whether the reverse-geocoding result carries an elevation
    usgsFeatures,   \* the features of the seismic feed payload
    response,       \* the response of the handler
    getPc,          \* "input" before the request is handled, "done" after it
    \* ---- the search effect of GlobeControlPanel over the globe store ----
    inputValue,     \* the text of the search input
    changes,        \* how many times the input has changed
    requests,       \* the debounced searches started so far, one per effect run
    current,        \* the request of the effect now mounted, 0 when it has none
    searchResults,  \* store: searchResults
    searchLoading,  \* store: searchLoading
    searchError,    \* store: searchError, <<>> when undefined
    lastWrite,      \* history: who last wrote searchResults, and which request
                    \* was the mounted one at that moment
    \* ---- the aggregation of the globe store ----
    siteOutcome,    \* how the weather fetch of each sample site ends
    observations,   \* the observations of the batch
    heatmapPoints,  \* HeatmapPoint[]
    weatherCells,   \* WeatherCell[]
    routeArcs,      \* RouteArc[]
    timeline,       \* TimelineEvent[]
    globePc         \* "input" before the call, "done" after it

VARIABLES
    \* ---- the globe store and GlobeDataProvider ----
    store,            \* the fields of the store the provider reads and writes
    ignore,           \* the ignore flag of each run of the hydrate effect
    cycles,           \* the calls of hydrate: their effect run and how far they are
    timelineTimerRef, \* timelineTimerRef.current
    intervals,        \* the playback intervals that are set and not cleared
    \* ---- pushRecentQuery ----
    recentQueries,    \* the store's recentQueries
    pushes,           \* calls of pushRecentQuery so far
    known,            \* how many ids were pushed so far
    repushes,         \* calls that pushed an id again
    \* ---- POST /api/http-server ----
    httpServerProcess, \* the module's handle of the process it spawned
    spawned,          \* the child processes spawned so far
    reply,            \* the response to the latest POST
    atRequest,        \* the ports of the servers that ran when it came in
    posts,            \* requests so far
    \* ---- UploadButton ----
    analysisStore,    \* the analysis store's state
    uploads,          \* the calls of handleFileChange: how far each one is
    \* ---- the projections onto the globe ----
    place,            \* latitude, longitude and radius to project
    projected         \* the point each projection gives

tleVars == <<tleBlocks, tleText, tleSets, tlePc>>
passVars == <<tles, passes, passPc>>
getVars == <<reqParams, feedStatus, reverseElevation, usgsFeatures, response, getPc>>
searchVars == <<inputValue, changes, requests, current, searchResults, searchLoading,
                searchError, lastWrite>>
globeVars == <<siteOutcome, observations, heatmapPoints, weatherCells, routeArcs,
               timeline, globePc>>
providerVars == <<store, ignore, cycles, timelineTimerRef, intervals>>
recentVars == <<recentQueries, pushes, known, repushes>>
uiVars == <<providerVars, recentVars>>
serverVars == <<httpServerProcess, spawned, reply, atRequest, posts>>
uploadVars == <<analysisStore, uploads>>
projectionVars == <<place, projected>>
vars == <<tleVars, passVars, getVars, searchVars, globeVars, uiVars, serverVars, uploadVars,
          projectionVars>>

(***************************************************************************)
(* Bounds of the model.                                                    *)
(***************************************************************************)
MaxTriplets == 7
MaxFree == 3
MaxFeedTriplets == 4
MaxFeatures == 2
MaxChanges == 3
MaxResults == 2
MaxObservations == 2
MaxCells == 3
MaxPoints == 7
MaxMounts == 2
MaxCycles == 2
MaxPushes == 17
MaxRepushes == 1
MaxPosts == 5
MaxUploads == 2

(***************************************************************************)
(* Program constants (src/unnamed/part_003).                               *)
(***************************************************************************)
SATELLITE_SAMPLE_COUNT == 6
SATELLITE_STEP_SECONDS == 60
SATELLITE_LOOKAHEAD_SECONDS == 7200
\* the relevance radius of line 125 and the alert radius, in 0.01 km
RELEVANCE_RADIUS == 250000
\* slice(0, 5) of line 142
MAX_PASSES == 5
\* Number.POSITIVE_INFINITY: above every distance on the globe
POSITIVE_INFINITY == 1000000000
\* closestTime = null
NULL_TIME == -1
\* altitudeKm: undefined
UNDEFINED_ALTITUDE == -1
\* ALERT_RADIUS_KM, in 0.01 km
ALERT_RADIUS == 50000
\* NaN, the distance haversineDistance gives for a non-numeric coordinate
NOT_A_NUMBER == -1

\* the length recentQueries is cut to (src/ui/src/stores/globeStore.ts:274)
RECENT_QUERIES_LIMIT == 15

\* the port when the body names none (src/ui/src/app/api/http-server/route.ts:10)
DEFAULT_PORT == 1339

\* const radius = 1.6 * 1.01, in 1/1000 (src/ui/src/components/Satellite.tsx:76)
SATELLITE_TARGET_RADIUS == 1616

(***************************************************************************)
(* Strings.                                                                *)
(***************************************************************************)
Whitespace == {" ", "\t", "\r"}

RECURSIVE TrimStart(_)
TrimStart(line) ==
    IF line # <<>> /\ Head(line) \in Whitespace THEN TrimStart(Tail(line)) ELSE line

RECURSIVE TrimEnd(_)
TrimEnd(line) ==
    IF line # <<>> /\ line[Len(line)] \in Whitespace
    THEN TrimEnd(SubSeq(line, 1, Len(line) - 1))
    ELSE line

\* String.prototype.trim
Trim(line) == TrimEnd(TrimStart(line))

\* String.prototype.startsWith
StartsWith(line, prefix) ==
    /\ Len(line) >= Len(prefix)
    /\ SubSeq(line, 1, Len(prefix)) = prefix

\* a mutant of TrimmedNonEmpty: the lines are trimmed but empty ones are kept
TrimmedNonEmpty_KeepEmpty(lines) == [i \in DOMAIN lines |-> Trim(lines[i])]

\* .map((line) => line.trim()).filter(Boolean): the empty string is falsy
RECURSIVE TrimmedNonEmpty(_)
TrimmedNonEmpty(lines) ==
    IF lines = <<>> THEN <<>>
    ELSE LET t == Trim(Head(lines))
         IN  IF t = <<>> THEN TrimmedNonEmpty(Tail(lines))
             ELSE <<t>> \o TrimmedNonEmpty(Tail(lines))

(***************************************************************************)
(* parseTleSets (part_003:72-86).                                          *)
(***************************************************************************)
\* the if of line 80
AcceptsWindow(line1, line2) ==
    StartsWith(line1, <<"1", " ">>) /\ StartsWith(line2, <<"2", " ">>)

\* a mutant of ParseStep: a rejected window advances the scan by one line
ParseStep_Realign(accepted) == IF accepted THEN 3 ELSE 1

\* index += 3 (line 78)
ParseStep(accepted) == 3

\* a mutant of ParseCapReached: the cap is tested with > instead of >=
ParseCapReached_Late(sets) == Len(sets) > SATELLITE_SAMPLE_COUNT

\* if (sets.length >= SATELLITE_SAMPLE_COUNT) break (line 83)
ParseCapReached(sets) == Len(sets) >= SATELLITE_SAMPLE_COUNT

\* the for loop of lines 78-84; index is 0-based as in the source
RECURSIVE ParseLoop(_, _, _)
ParseLoop(lines, index, sets) ==
    IF ~(index < Len(lines) - 2) THEN sets
    ELSE LET name == lines[index + 1]
             line1 == lines[index + 2]
             line2 == lines[index + 3]
             accepted == AcceptsWindow(line1, line2)
             pushed == IF accepted
                       THEN Append(sets, [name |-> name, line1 |-> line1, line2 |-> line2])
                       ELSE sets
         IN  IF ParseCapReached(pushed) THEN pushed
             ELSE ParseLoop(lines, index + ParseStep(accepted), pushed)

parseTleSets(text) == ParseLoop(TrimmedNonEmpty(text), 0, <<>>)

(***************************************************************************)
(* The texts parseTleSets is applied to: up to MaxTriplets well-formed     *)
(* triplets (the i-th carrying the i-th letter) with up to MaxFree other   *)
(* lines anywhere between, before and after them.                          *)
(***************************************************************************)
Letters == <<"a", "b", "c", "d", "e", "f", "g", "h", "i", "j", "k", "l">>

TripletLines(i) ==
    << <<"N", Letters[i]>>, <<"1", " ", Letters[i]>>, <<"2", " ", Letters[i]>> >>

BlankLine == <<" ">>
GarbageLine == <<"x">>
\* lines that are no part of a triplet: blank, garbage, and two lines that
\* look like element lines (one of them indented)
FreeLines == {BlankLine, GarbageLine, <<" ", "1", " ", "z">>, <<"2", " ", "z">>}

TripletBlock(i) == [kind |-> "triplet", lines |-> TripletLines(i)]
FreeBlock(l) == [kind |-> "free", lines |-> <<l>>]

RECURSIVE FlattenBlocks(_)
FlattenBlocks(blocks) ==
    IF blocks = <<>> THEN <<>> ELSE Head(blocks).lines \o FlattenBlocks(Tail(blocks))

CountKind(blocks, kind) == Cardinality({i \in DOMAIN blocks : blocks[i].kind = kind})

TleStart ==
    /\ tleBlocks = <<>>
    /\ tleText = <<>>
    /\ tleSets = <<>>
    /\ tlePc = "input"

\* the feed text grows by one well-formed triplet
AppendTriplet ==
    /\ tlePc = "input"
    /\ CountKind(tleBlocks, "triplet") < MaxTriplets
    /\ tleBlocks' = Append(tleBlocks, TripletBlock(CountKind(tleBlocks, "triplet") + 1))
    /\ tleText' = FlattenBlocks(tleBlocks')
    /\ UNCHANGED <<tleSets, tlePc>>
    /\ UNCHANGED <<passVars, getVars, searchVars, globeVars, uiVars, serverVars, uploadVars, projectionVars>>

\* the feed text grows by one line that is no part of a triplet
AppendFreeLine ==
    /\ tlePc = "input"
    /\ CountKind(tleBlocks, "free") < MaxFree
    /\ \E l \in FreeLines : tleBlocks' = Append(tleBlocks, FreeBlock(l))
    /\ tleText' = FlattenBlocks(tleBlocks')
    /\ UNCHANGED <<tleSets, tlePc>>
    /\ UNCHANGED <<passVars, getVars, searchVars, globeVars, uiVars, serverVars, uploadVars, projectionVars>>

\* const tleSets = parseTleSets(tleText)
ParseTle ==
    /\ tlePc = "input"
    /\ tleSets' = parseTleSets(tleText)
    /\ tlePc' = "done"
    /\ UNCHANGED <<tleBlocks, tleText>>
    /\ UNCHANGED <<passVars, getVars, searchVars, globeVars, uiVars, serverVars, uploadVars, projectionVars>>

TleNext == AppendTriplet \/ AppendFreeLine \/ ParseTle

(***************************************************************************)
(* The orbit propagator.  satellite.js is outside the repository: what it  *)
(* answers for an element set is given by the element set's track, the     *)
(* result of propagate/eciToGeodetic/haversineDistance at each sample time *)
(* (part_003:110-117).  A track is flat (base) except at one minute.       *)
(***************************************************************************)
\* a sample with a position: great-circle distance in 0.01 km, geodetic.height
Fix(d, h) == [position |-> TRUE, distance |-> d, height |-> h]
\* propagate() gave no position
NoFix == [position |-> FALSE, distance |-> 0, height |-> 0]

Track(throws, base, minute, val) ==
    [throws |-> throws, base |-> base, minute |-> minute, val |-> val]

\* the tracks of the element sets "a".."l" (the letter is the third
\* character of line1)
TrackOf(letter) ==
    CASE letter = "a" -> Track(FALSE, Fix(300000, 420000), 42, Fix(1000, 408000))
      [] letter = "b" -> Track(FALSE, Fix(260000, 550000), 0, Fix(1004, 0))
      [] letter = "c" -> Track(FALSE, Fix(300000, 700000), 7, Fix(300000, 700000))
      [] letter = "d" -> Track(FALSE, Fix(250000, 35786000), 9, Fix(250000, 35786000))
      [] letter = "e" -> Track(FALSE, NoFix, 120, Fix(249996, 812349))
      [] letter = "f" -> Track(FALSE, NoFix, 3, NoFix)
      [] letter = "g" -> Track(TRUE, NoFix, 0, NoFix)
      [] letter = "h" -> Track(FALSE, Fix(50000, 500000), 60, NoFix)
      [] letter = "i" -> Track(FALSE, Fix(120000, 600000), 1, Fix(90000, 600000))
      [] letter = "j" -> Track(FALSE, Fix(150000, 20200000), 119, Fix(150000, 20200000))
      [] letter = "k" -> Track(FALSE, Fix(280000, 1200000), 77, Fix(200000, 1200000))
      [] OTHER -> Track(FALSE, Fix(240000, 900000), 30, NoFix)

\* the sample at now + step seconds (lines 110-117)
Sample(track, step) ==
    IF step = track.minute * SATELLITE_STEP_SECONDS THEN track.val ELSE track.base

(***************************************************************************)
(* computeSatellitePasses (part_003:88-143).                               *)
(***************************************************************************)
\* a mutant of RoundTenth: the distance is cut, not rounded
RoundTenth_Floor(d) == d \div 10

\* Number(x.toFixed(1)) for x >= 0 in 0.01 units: the result in 0.1 units
RoundTenth(d) == (d + 5) \div 10

\* a mutant of IsCloser: a later sample at the same distance replaces the first
IsCloser_OrEqual(distance, closestDistance) == distance <= closestDistance

\* if (distance < closestDistance) (line 118)
IsCloser(distance, closestDistance) == distance < closestDistance

\* a mutant of InLookahead: the end of the window is left out
InLookahead_Exclusive(step) == step < SATELLITE_LOOKAHEAD_SECONDS

\* step <= SATELLITE_LOOKAHEAD_SECONDS (line 109)
InLookahead(step) == step <= SATELLITE_LOOKAHEAD_SECONDS

\* closestAltitudeKm = geodetic.height ? geodetic.height / 1000 : undefined,
\* then Number(closestAltitudeKm.toFixed(1)) when truthy (lines 121, 132-134);
\* the result in 0.1 units
AltitudeKm(height) ==
    IF height = 0 THEN UNDEFINED_ALTITUDE
    ELSE IF (height + 50) \div 100 = 0 THEN 0 ELSE (height + 50) \div 100

\* a mutant of SampleStep: a sample without a position is not skipped
SampleStep_NoPositionCheck(track, k, closest) ==
    LET step == k * SATELLITE_STEP_SECONDS
        s == Sample(track, step)
    IN  IF IsCloser(s.distance, closest.distance)
        THEN [distance |-> s.distance, time |-> step, height |-> s.height]
        ELSE closest

\* one iteration of the sample loop (lines 110-122) at sample k
SampleStep(track, k, closest) ==
    LET step == k * SATELLITE_STEP_SECONDS
        s == Sample(track, step)
    IN  IF s.position /\ IsCloser(s.distance, closest.distance)
        THEN [distance |-> s.distance, time |-> step, height |-> s.height]
        ELSE closest

\* the iterations lo..hi of the sample loop, in order (the range is split in
\* halves only to keep the evaluation shallow)
RECURSIVE SampleLoop(_, _, _, _)
SampleLoop(track, lo, hi, closest) ==
    IF lo > hi THEN closest
    ELSE IF lo = hi THEN SampleStep(track, lo, closest)
    ELSE LET mid == (lo + hi) \div 2
             first == SampleLoop(track, lo, mid, closest)
         IN  IF first.time = NULL_TIME
             THEN SampleLoop(track, mid + 1, hi, closest)
             ELSE SampleLoop(track, mid + 1, hi, first)

\* the samples the loop of line 109 visits: step = 0, 60, ... while in the window
SampleIndexes ==
    {k \in 0..(SATELLITE_LOOKAHEAD_SECONDS \div SATELLITE_STEP_SECONDS) :
        InLookahead(k * SATELLITE_STEP_SECONDS)}

\* lines 105-123: the closest sample of one track
ClosestApproach(track) ==
    SampleLoop(track, 0, Cardinality(SampleIndexes) - 1,
               [distance |-> POSITIVE_INFINITY, time |-> NULL_TIME, height |-> 0])

OrbitLetter(tle) == tle.line1[3]

\* the closest approach of every element set, computed once
ClosestOf == [i \in DOMAIN Letters |-> ClosestApproach(TrackOf(Letters[i]))]
LetterIndex(letter) == CHOOSE i \in DOMAIN Letters : Letters[i] = letter

\* a mutant of WithinRadius: the filter on the radius is left out
WithinRadius_Unfiltered(distance) == distance < POSITIVE_INFINITY

\* a mutant of WithinRadius: the radius itself is accepted
WithinRadius_Inclusive(distance) == distance <= RELEVANCE_RADIUS

\* closestDistance < 2500 (line 125)
WithinRadius(distance) == distance < RELEVANCE_RADIUS

\* tle.line1.slice(2, 7), the text parseInt reads the catalogue number from
NoradField(line1) ==
    SubSeq(line1, 3, IF Len(line1) < 7 THEN Len(line1) ELSE 7)

\* the body of the for loop for one record (lines 103-139): the passes it
\* pushes; an exception of twoline2satrec is caught and pushes nothing
PassesOfRecord(tle) ==
    LET track == TrackOf(OrbitLetter(tle))
        closest == ClosestOf[LetterIndex(OrbitLetter(tle))]
    IN  IF track.throws THEN <<>>
        ELSE IF closest.time # NULL_TIME /\ WithinRadius(closest.distance)
        THEN << [name |-> Trim(tle.name),
                 noradId |-> NoradField(tle.line1),
                 distanceKm |-> RoundTenth(closest.distance),
                 passTime |-> closest.time,
                 altitudeKm |-> AltitudeKm(closest.height)] >>
        ELSE <<>>

RECURSIVE CollectPasses(_)
CollectPasses(records) ==
    IF records = <<>> THEN <<>>
    ELSE PassesOfRecord(Head(records)) \o CollectPasses(Tail(records))

\* a mutant of ComesBefore: ties are broken towards the later element
ComesBefore_Unstable(a, b) == a.distanceKm - b.distanceKm <= 0

\* the comparator of line 142 puts a before b only when it is negative
ComesBefore(a, b) == a.distanceKm - b.distanceKm < 0

\* Array.prototype.sort is stable: x goes after the elements it does not
\* come before
RECURSIVE InsertSorted(_, _)
InsertSorted(sorted, x) ==
    IF sorted = <<>> THEN <<x>>
    ELSE IF ComesBefore(x, Head(sorted)) THEN <<x>> \o sorted
    ELSE <<Head(sorted)>> \o InsertSorted(Tail(sorted), x)

\* a mutant of SortByDistance: the passes stay in the order of the records
SortByDistance_Unsorted(list) == list

\* passes.sort(...) of line 142
RECURSIVE SortByDistance(_)
SortByDistance(list) ==
    IF list = <<>> THEN <<>>
    ELSE InsertSorted(SortByDistance(SubSeq(list, 1, Len(list) - 1)), list[Len(list)])

\* a mutant of TopPasses: the list is returned whole
TopPasses_All(sorted) == sorted

\* .slice(0, 5)
TopPasses(sorted) ==
    SubSeq(sorted, 1, IF Len(sorted) < MAX_PASSES THEN Len(sorted) ELSE MAX_PASSES)

computeSatellitePasses(records) == TopPasses(SortByDistance(CollectPasses(records)))

\* the element sets computeSatellitePasses meets
OrbitLetters == {"a", "b", "c", "d", "e", "f", "g"}

TleRecord(letter) ==
    [name |-> <<"N", letter>>, line1 |-> <<"1", " ", letter>>,
     line2 |-> <<"2", " ", letter>>]

PassStart ==
    /\ tles = <<>>
    /\ passes = <<>>
    /\ passPc = "input"

\* one more record in the list; the route never passes more than the
\* SATELLITE_SAMPLE_COUNT records parseTleSets returns (lines 279, 317)
AddTle ==
    /\ passPc = "input"
    /\ Len(tles) < SATELLITE_SAMPLE_COUNT
    /\ \E letter \in OrbitLetters : tles' = Append(tles, TleRecord(letter))
    /\ UNCHANGED <<passes, passPc>>
    /\ UNCHANGED <<tleVars, getVars, searchVars, globeVars, uiVars, serverVars, uploadVars, projectionVars>>

\* const satellites = computeSatellitePasses(tleSets, latitude, longitude)
ComputePasses ==
    /\ passPc = "input"
    /\ passes' = computeSatellitePasses(tles)
    /\ passPc' = "done"
    /\ UNCHANGED tles
    /\ UNCHANGED <<tleVars, getVars, searchVars, globeVars, uiVars, serverVars, uploadVars, projectionVars>>

PassNext == AddTle \/ ComputePasses

\* element sets that all come within the radius, two of them at distances
\* that round to the same distanceKm
RankLetters == {"a", "b", "e", "h", "i", "j", "k"}

\* one more record in the list, from the element sets within the radius
AddCloseTle ==
    /\ passPc = "input"
    /\ Len(tles) < SATELLITE_SAMPLE_COUNT
    /\ \E letter \in RankLetters : tles' = Append(tles, TleRecord(letter))
    /\ UNCHANGED <<passes, passPc>>
    /\ UNCHANGED <<tleVars, getVars, searchVars, globeVars, uiVars, serverVars, uploadVars, projectionVars>>

RankNext == AddCloseTle \/ ComputePasses

(***************************************************************************)
(* The location-info GET handler (part_003:180-352).  The five upstream    *)
(* feeds are outside the repository: each fetch ends "ok", with a non-OK   *)
(* HTTP status ("http_error") or rejected ("network_error"), and a feed    *)
(* that answers sends the payload given here.  An optional value is <<>>   *)
(* (null / undefined) or <<v>>.                                            *)
(***************************************************************************)
Feeds == {"reverse", "weather", "topo", "usgs", "tle"}

None == <<>>
Some(v) == <<v>>
\* a ?? b
OrElse(a, b) == IF a # None THEN a ELSE b

\* reversePayload.results[0]
ReverseResult(withElevation) ==
    [name |-> "Odawara", country |-> Some("Japan"), admin1 |-> Some("Kanagawa"),
     timezone |-> Some("Asia/Tokyo"), population |-> Some(190000),
     elevation |-> IF withElevation THEN Some(14) ELSE None]

\* weatherPayload: temperature and windspeed in 0.1 units, precipitation in 0.1 mm
WeatherPayload ==
    [current_weather |-> [temperature |-> Some(215), windspeed |-> Some(34),
                          weathercode |-> Some(3)],
     precipitation |-> <<0, 12, 6, 0, 30, 0, 90>>]

\* topoPayload.results[0].elevation
TopoElevation == Some(9)

\* the features of the seismic feed that the handler may meet: geometry
\* says whether feature.geometry is there, numeric whether its coordinates are
\* numbers, distance what haversineDistance gives for them (0.01 km), mag the
\* magnitude in 0.1 units
FeatureKinds ==
    { [id |-> "near", geometry |-> TRUE, numeric |-> TRUE, distance |-> 10000,
       mag |-> Some(61), title |-> Some("M 6.1 - near"), time |-> Some("t-near")],
      [id |-> "edge", geometry |-> TRUE, numeric |-> TRUE, distance |-> 50000,
       mag |-> Some(52), title |-> None, time |-> None],
      [id |-> "far", geometry |-> TRUE, numeric |-> TRUE, distance |-> 60000,
       mag |-> Some(70), title |-> Some("M 7.0 - far"), time |-> Some("t-far")],
      [id |-> "nogeometry", geometry |-> FALSE, numeric |-> FALSE, distance |-> 0,
       mag |-> Some(40), title |-> Some("M 4.0 - nowhere"), time |-> Some("t-nowhere")],
      [id |-> "badcoords", geometry |-> TRUE, numeric |-> FALSE, distance |-> 0,
       mag |-> None, title |-> Some("M ? - unknown"), time |-> Some("t-unknown")] }

\* haversineDistance(latitude, longitude, eventLat, eventLon) (lines 29-44, 294)
HaversineToEvent(feature) ==
    IF feature.numeric THEN feature.distance ELSE NOT_A_NUMBER

\* Number(distance.toFixed(1)); NaN stays NaN
RoundedDistance(distance) ==
    IF distance = NOT_A_NUMBER THEN NOT_A_NUMBER ELSE RoundTenth(distance)

\* a mutant of BeyondAlertRadius: an event at the radius itself is dropped
BeyondAlertRadius_Inclusive(distance) ==
    distance # NOT_A_NUMBER /\ distance >= ALERT_RADIUS

\* distance > ALERT_RADIUS_KM (line 295); every comparison with NaN is false
BeyondAlertRadius(distance) ==
    distance # NOT_A_NUMBER /\ distance > ALERT_RADIUS

\* lines 300-307
SeverityOf(mag) ==
    IF mag = None THEN None
    ELSE IF mag[1] >= 60 THEN Some("High")
    ELSE IF mag[1] >= 50 THEN Some("Moderate")
    ELSE Some("Low")

\* the object of lines 296-313
AlertOf(feature) ==
    [id |-> feature.id,
     title |-> OrElse(feature.title, Some("Seismic activity detected"))[1],
     source |-> "USGS Earthquake Feed",
     severity |-> SeverityOf(feature.mag),
     magnitude |-> feature.mag,
     distanceKm |-> RoundedDistance(HaversineToEvent(feature)),
     happenedAt |-> IF feature.time # None THEN feature.time[1] ELSE "now"]

\* .map(...).filter(Boolean) of lines 292-315, for features that all have a
\* geometry
RECURSIVE AlertsOf(_)
AlertsOf(features) ==
    IF features = <<>> THEN <<>>
    ELSE IF BeyondAlertRadius(HaversineToEvent(Head(features)))
    THEN AlertsOf(Tail(features))
    ELSE <<AlertOf(Head(features))>> \o AlertsOf(Tail(features))

\* feature.geometry.coordinates of line 293 throws a TypeError when a feature
\* has no geometry
AlertsThrow(features) == \E i \in DOMAIN features : ~features[i].geometry

\* mapWeatherCode (lines 145-178)
WeatherCodeTable ==
    [code \in {0, 1, 2, 3, 45, 48, 51, 53, 55, 56, 57, 61, 63, 65, 66, 67,
                71, 73, 75, 77, 80, 81, 82, 85, 86, 95, 96, 99} |->
        CASE code = 0 -> "Clear sky"
          [] code = 1 -> "Mainly clear"
          [] code = 2 -> "Partly cloudy"
          [] code = 3 -> "Overcast"
          [] code = 45 -> "Fog"
          [] code = 48 -> "Depositing rime fog"
          [] code = 51 -> "Light drizzle"
          [] code = 53 -> "Moderate drizzle"
          [] code = 55 -> "Dense drizzle"
          [] code \in {56, 57} -> "Freezing drizzle"
          [] code = 61 -> "Slight rain"
          [] code = 63 -> "Moderate rain"
          [] code = 65 -> "Heavy rain"
          [] code \in {66, 67} -> "Freezing rain"
          [] code = 71 -> "Slight snow"
          [] code = 73 -> "Moderate snow"
          [] code = 75 -> "Heavy snow"
          [] code = 77 -> "Snow grains"
          [] code = 80 -> "Rain showers"
          [] code = 81 -> "Moderate rain showers"
          [] code = 82 -> "Violent rain showers"
          [] code = 85 -> "Snow showers"
          [] code = 86 -> "Heavy snow showers"
          [] code = 95 -> "Thunderstorm"
          [] code = 96 -> "Thunderstorm with hail"
          [] OTHER -> "Severe thunderstorm with hail"]

mapWeatherCode(code) ==
    IF code = None THEN None
    ELSE IF code[1] \in DOMAIN WeatherCodeTable THEN Some(WeatherCodeTable[code[1]])
    ELSE Some("Weather data unavailable")

RECURSIVE SumSeq(_)
SumSeq(list) == IF list = <<>> THEN 0 ELSE Head(list) + SumSeq(Tail(list))

\* averagePrecipitation (lines 284-288)
AveragePrecipitation(precipitation) ==
    IF Len(precipitation) > 0
    THEN Some(SumSeq(SubSeq(precipitation, 1,
                            IF Len(precipitation) < 6 THEN Len(precipitation) ELSE 6))
              \div (IF Len(precipitation) < 6 THEN Len(precipitation) ELSE 6))
    ELSE None

ErrorResponse(status, message) == [status |-> status, error |-> message]

\* if (!reverseRes.ok) throw (lines 228-230)
ReverseFailed(status) == status["reverse"] # "ok"

\* if (!weatherRes.ok) throw (lines 231-233)
WeatherFailed(status) == status["weather"] # "ok"

\* await Promise.all([...]) of lines 220-226 rejects when a fetch rejects
AnyFetchRejected(status) == \E f \in Feeds : status[f] = "network_error"

\* lines 281-342: the body of the successful response, from the payloads of
\* the feeds and the records parsed from the TLE text
ResponseBody(status, withElevation, features, sets) ==
    LET result == ReverseResult(withElevation)
        currentWeather == WeatherPayload.current_weather
        topoPayload == IF status["topo"] = "ok" THEN TopoElevation ELSE None
        usgsFeatures_ == IF status["usgs"] = "ok" THEN features ELSE <<>>
    IN  [country |-> result.country,
         region |-> result.admin1,
         timezone |-> result.timezone,
         population |-> result.population,
         elevation |-> OrElse(result.elevation, topoPayload),
         imageryUrl |-> "nasa-tile",
         fallbackImagery |-> "osm-static",
         weather |-> [temperature |-> currentWeather.temperature,
                      windspeed |-> currentWeather.windspeed,
                      precipitation |-> AveragePrecipitation(WeatherPayload.precipitation),
                      description |-> mapWeatherCode(currentWeather.weathercode)],
         alerts |-> AlertsOf(usgsFeatures_),
         satellites |-> computeSatellitePasses(sets),
         links |-> "links"]

\* GET, from the parsed parameters on, with the records the TLE text gave
LocationInfo(params, status, withElevation, features, sets) ==
    IF params = "missing"
    THEN ErrorResponse(400, "latitude and longitude are required")
    ELSE IF params = "invalid"
    THEN ErrorResponse(400, "Invalid latitude or longitude")
    ELSE IF AnyFetchRejected(status) \/ ReverseFailed(status) \/ WeatherFailed(status)
    THEN ErrorResponse(502, "Failed to load location intelligence")
    ELSE IF status["usgs"] = "ok" /\ AlertsThrow(features)
    THEN ErrorResponse(502, "Failed to load location intelligence")
    ELSE [status |-> 200, body |-> ResponseBody(status, withElevation, features, sets)]

\* const tleText = tleRes.ok ? await tleRes.text() : "" (line 278)
ReceivedTleText(status, text) == IF status["tle"] = "ok" THEN text ELSE <<>>

GetStart ==
    /\ reqParams = "ok"
    /\ feedStatus = [f \in Feeds |-> "ok"]
    /\ reverseElevation = TRUE
    /\ usgsFeatures = <<>>
    /\ response = [status |-> 0]
    /\ getPc = "input"

\* the request comes without, or with unparsable, coordinates
SetParams ==
    /\ getPc = "input"
    /\ reqParams = "ok"
    /\ \E p \in {"missing", "invalid"} : reqParams' = p
    /\ UNCHANGED <<feedStatus, reverseElevation, usgsFeatures, response, getPc>>
    /\ UNCHANGED <<tleVars, passVars, searchVars, globeVars, uiVars, serverVars, uploadVars, projectionVars>>

\* an upstream feed is down
FailFeed ==
    /\ getPc = "input"
    /\ \E f \in Feeds, st \in {"http_error", "network_error"} :
          /\ feedStatus[f] = "ok"
          /\ feedStatus' = [feedStatus EXCEPT ![f] = st]
    /\ UNCHANGED <<reqParams, reverseElevation, usgsFeatures, response, getPc>>
    /\ UNCHANGED <<tleVars, passVars, searchVars, globeVars, uiVars, serverVars, uploadVars, projectionVars>>

\* the reverse-geocoding result has no elevation
DropReverseElevation ==
    /\ getPc = "input"
    /\ reverseElevation
    /\ reverseElevation' = FALSE
    /\ UNCHANGED <<reqParams, feedStatus, usgsFeatures, response, getPc>>
    /\ UNCHANGED <<tleVars, passVars, searchVars, globeVars, uiVars, serverVars, uploadVars, projectionVars>>

\* the seismic feed lists one more event
AddFeature ==
    /\ getPc = "input"
    /\ Len(usgsFeatures) < MaxFeatures
    /\ \E feature \in FeatureKinds : usgsFeatures' = Append(usgsFeatures, feature)
    /\ UNCHANGED <<reqParams, feedStatus, reverseElevation, response, getPc>>
    /\ UNCHANGED <<tleVars, passVars, searchVars, globeVars, uiVars, serverVars, uploadVars, projectionVars>>

\* the TLE feed lists one more element set
FeedTriplet ==
    /\ getPc = "input"
    /\ tlePc = "input"
    /\ CountKind(tleBlocks, "triplet") < MaxFeedTriplets
    /\ tleBlocks' = Append(tleBlocks, TripletBlock(CountKind(tleBlocks, "triplet") + 1))
    /\ tleText' = FlattenBlocks(tleBlocks')
    /\ UNCHANGED <<tleSets, tlePc>>
    /\ UNCHANGED <<passVars, getVars, searchVars, globeVars, uiVars, serverVars, uploadVars, projectionVars>>

\* export async function GET(request)
Get ==
    /\ getPc = "input"
    /\ tlePc = "input"
    /\ LET handled == reqParams = "ok" /\ ~AnyFetchRejected(feedStatus)
                       /\ ~ReverseFailed(feedStatus) /\ ~WeatherFailed(feedStatus)
           sets == parseTleSets(ReceivedTleText(feedStatus, tleText))
       IN  /\ tleSets' = IF handled THEN sets ELSE tleSets
           /\ tlePc' = IF handled THEN "done" ELSE tlePc
           /\ response' = LocationInfo(reqParams, feedStatus, reverseElevation,
                                        usgsFeatures, sets)
    /\ getPc' = "done"
    /\ UNCHANGED <<reqParams, feedStatus, reverseElevation, usgsFeatures>>
    /\ UNCHANGED <<tleBlocks, tleText, passVars, searchVars, globeVars, uiVars, serverVars, uploadVars, projectionVars>>

GetNext == SetParams \/ FailFeed \/ DropReverseElevation \/ AddFeature \/ FeedTriplet \/ Get

(***************************************************************************)
(* The search effect of GlobeControlPanel (GlobeControlPanel.tsx:133-281)  *)
(* over searchResults, searchLoading and searchError of the globe store.   *)
(* Each run of the effect for an input of 3 or more characters starts one  *)
(* request: a debounce timer, then the geocode fetch, the reading of its   *)
(* body, and one location-info fetch per result.  A fetch or a body read   *)
(* whose signal is aborted rejects with an AbortError; the continuation of *)
(* every await runs as a microtask, right after the promise settles, so it *)
(* is part of the step that settles it.                                    *)
(***************************************************************************)
Queries == { <<>>, <<" ", "r", "o", " ">>, <<"r", "o", "m">>, <<"r", "o", "m", "e">> }

ResultIds == <<"p1", "p2", "p3">>

GEOCODE_ERROR == "Unable to fetch geocoding results right now."

\* !inputValue || inputValue.trim().length < 3 (line 139)
TooShort(value) == value = <<>> \/ Len(Trim(value)) < 3

\* an item of the geocode payload; the second place has no country
GeocodeItem(i) ==
    [id |-> ResultIds[i], name |-> ResultIds[i],
     country |-> IF i = 2 THEN None ELSE Some("geocode-country")]

\* the argument of setSearchResults (lines 173-184)
BaseResult(item) ==
    [id |-> item.id, name |-> item.name, country |-> item.country,
     timezone |-> None, weather |-> None, satellites |-> None]

\* the location-info payload for a result; the first place has no country
\* and no timezone in it
LocationInfoPayload(id) ==
    [country |-> IF id = ResultIds[1] THEN None ELSE Some("info-country"),
     timezone |-> IF id = ResultIds[1] THEN None ELSE Some("info-timezone"),
     weather |-> Some("info-weather"),
     satellites |-> Some("info-satellites")]

\* the patch of lines 239-251
PatchOf(item, info) ==
    [country |-> OrElse(info.country, item.country),
     timezone |-> info.timezone,
     weather |-> info.weather,
     satellites |-> info.satellites]

\* { ...item, ...patch }
Merge(item, patch) ==
    [f \in DOMAIN item \cup DOMAIN patch |->
        IF f \in DOMAIN patch THEN patch[f] ELSE item[f]]

\* a mutant of updateSearchResult: the patch is merged into every entry
updateSearchResult_Every(results, id, patch) ==
    [i \in DOMAIN results |-> Merge(results[i], patch)]

\* globeStore.ts:244-249
updateSearchResult(results, id, patch) ==
    [i \in DOMAIN results |->
        IF results[i].id = id THEN Merge(results[i], patch) ELSE results[i]]

\* a mutant of SignalAborted: the fetches are made without the signal
SignalAborted_Ignored(request) == FALSE

\* controller.signal.aborted, as seen by the fetches given the signal
SignalAborted(request) == request.aborted

NewRequest(query) ==
    [query |-> Trim(query), phase |-> "timer", aborted |-> FALSE, sub |-> <<>>]

\* the cleanup of the effect (lines 268-274): controller.abort(), clearTimeout
Cleanup(request) ==
    [request EXCEPT !.aborted = TRUE,
                    !.phase = IF @ = "timer" THEN "cancelled" ELSE @]

InFlight(request) == request.phase \in {"geocode", "geocode_body", "enrich"}

\* the pending awaits of an aborted request reject with an AbortError
Rejects(request) == InFlight(request) /\ SignalAborted(request)

AllSettled(sub) == \A i \in DOMAIN sub : sub[i].phase = "done"

SearchStart ==
    /\ inputValue = <<>>
    /\ changes = 0
    /\ requests = <<>>
    /\ current = 0
    /\ searchResults = <<>>
    /\ searchLoading = FALSE
    /\ searchError = None
    /\ lastWrite = [by |-> 0, during |-> 0]

\* the input changes: the cleanup of the mounted effect, then the effect of
\* the new input (lines 133-275), then the rejections the abort caused: a
\* rejected sub-fetch returns (line 253), a rejected geocode fetch or body
\* read goes through catch and finally (lines 258-263)
ChangeInput ==
    /\ changes < MaxChanges
    /\ \E value \in Queries \ {inputValue} :
        LET cleaned == [r \in DOMAIN requests |->
                            IF r = current THEN Cleanup(requests[r]) ELSE requests[r]]
            rejected == current # 0 /\ Rejects(cleaned[current])
            inGeocode == rejected /\ cleaned[current].phase # "enrich"
            settled == [r \in DOMAIN cleaned |->
                            IF r = current /\ rejected
                            THEN [cleaned[r] EXCEPT !.phase = "done",
                                    !.sub = [i \in DOMAIN @ |-> [@[i] EXCEPT !.phase = "done"]]]
                            ELSE cleaned[r]]
        IN  /\ inputValue' = value
            /\ changes' = changes + 1
            /\ IF TooShort(value)
               THEN /\ requests' = settled
                    /\ current' = 0
                    /\ searchResults' = <<>>
                    /\ lastWrite' = [by |-> 0, during |-> 0]
               ELSE /\ requests' = Append(settled, NewRequest(value))
                    /\ current' = Len(requests) + 1
                    /\ UNCHANGED <<searchResults, lastWrite>>
            /\ searchLoading' = IF rejected \/ TooShort(value) THEN FALSE ELSE searchLoading
            /\ searchError' = IF inGeocode THEN Some(GEOCODE_ERROR)
                              ELSE IF TooShort(value) THEN None
                              ELSE searchError
    /\ UNCHANGED <<tleVars, passVars, getVars, globeVars, uiVars, serverVars, uploadVars, projectionVars>>

\* the debounce timer fires (lines 148-155): the geocode fetch starts
TimerFire ==
    /\ \E r \in DOMAIN requests :
        /\ requests[r].phase = "timer"
        /\ requests' = [requests EXCEPT ![r].phase = "geocode"]
    /\ searchLoading' = TRUE
    /\ searchError' = None
    /\ UNCHANGED <<inputValue, changes, current, searchResults, lastWrite>>
    /\ UNCHANGED <<tleVars, passVars, getVars, globeVars, uiVars, serverVars, uploadVars, projectionVars>>

\* the geocode fetch settles (lines 153-158): an OK response goes on to the
\* reading of its body
GeocodeResponds ==
    /\ \E r \in DOMAIN requests :
        /\ requests[r].phase = "geocode"
        /\ ~SignalAborted(requests[r])
        /\ requests' = [requests EXCEPT ![r].phase = "geocode_body"]
    /\ UNCHANGED <<inputValue, changes, current, searchResults, searchLoading,
                   searchError, lastWrite>>
    /\ UNCHANGED <<tleVars, passVars, getVars, globeVars, uiVars, serverVars, uploadVars, projectionVars>>

\* the geocode fetch rejects or answers with a non-OK status
\* (lines 156-158, 258-263)
GeocodeFails ==
    /\ \E r \in DOMAIN requests :
        /\ requests[r].phase = "geocode"
        /\ ~SignalAborted(requests[r])
        /\ requests' = [requests EXCEPT ![r].phase = "done"]
    /\ searchError' = Some(GEOCODE_ERROR)
    /\ searchLoading' = FALSE
    /\ UNCHANGED <<inputValue, changes, current, searchResults, lastWrite>>
    /\ UNCHANGED <<tleVars, passVars, getVars, globeVars, uiVars, serverVars, uploadVars, projectionVars>>

\* the body of the geocode response is read (lines 159-186): setSearchResults,
\* then one location-info fetch per result; with no result Promise.all
\* resolves at once (line 262)
GeocodeBody ==
    /\ \E r \in DOMAIN requests, n \in 0..MaxResults :
        /\ requests[r].phase = "geocode_body"
        /\ ~SignalAborted(requests[r])
        /\ searchResults' = [i \in 1..n |-> BaseResult(GeocodeItem(i))]
        /\ lastWrite' = [by |-> r, during |-> current]
        /\ requests' = [requests EXCEPT
                            ![r].phase = IF n = 0 THEN "done" ELSE "enrich",
                            ![r].sub = [i \in 1..n |-> [id |-> ResultIds[i], phase |-> "info"]]]
        /\ searchLoading' = IF n = 0 THEN FALSE ELSE searchLoading
    /\ UNCHANGED <<inputValue, changes, current, searchError>>
    /\ UNCHANGED <<tleVars, passVars, getVars, globeVars, uiVars, serverVars, uploadVars, projectionVars>>

\* a location-info fetch answers OK (lines 194-200): its body is read next
InfoResponds ==
    /\ \E r \in DOMAIN requests :
        \E i \in DOMAIN requests[r].sub :
            /\ requests[r].phase = "enrich"
            /\ requests[r].sub[i].phase = "info"
            /\ ~SignalAborted(requests[r])
            /\ requests' = [requests EXCEPT ![r].sub[i].phase = "info_body"]
    /\ UNCHANGED <<inputValue, changes, current, searchResults, searchLoading,
                   searchError, lastWrite>>
    /\ UNCHANGED <<tleVars, passVars, getVars, globeVars, uiVars, serverVars, uploadVars, projectionVars>>

\* a location-info fetch rejects or answers with a non-OK status
\* (lines 200, 252-255); the last one to settle ends the request (line 262)
InfoFails ==
    /\ \E r \in DOMAIN requests :
        \E i \in DOMAIN requests[r].sub :
            /\ requests[r].phase = "enrich"
            /\ requests[r].sub[i].phase = "info"
            /\ ~SignalAborted(requests[r])
            /\ LET sub == [requests[r].sub EXCEPT ![i].phase = "done"]
               IN  /\ requests' = [requests EXCEPT
                                     ![r].sub = sub,
                                     ![r].phase = IF AllSettled(sub) THEN "done" ELSE @]
                   /\ searchLoading' = IF AllSettled(sub) THEN FALSE ELSE searchLoading
    /\ UNCHANGED <<inputValue, changes, current, searchResults, searchError, lastWrite>>
    /\ UNCHANGED <<tleVars, passVars, getVars, globeVars, uiVars, serverVars, uploadVars, projectionVars>>

\* the body of a location-info response is read (lines 201-251):
\* updateSearchResult; the last one to settle ends the request (line 262)
InfoBody ==
    /\ \E r \in DOMAIN requests :
        \E i \in DOMAIN requests[r].sub :
            /\ requests[r].phase = "enrich"
            /\ requests[r].sub[i].phase = "info_body"
            /\ ~SignalAborted(requests[r])
            /\ LET sub == [requests[r].sub EXCEPT ![i].phase = "done"]
                   id == requests[r].sub[i].id
               IN  /\ searchResults' =
                         updateSearchResult(searchResults, id,
                                            PatchOf(GeocodeItem(i), LocationInfoPayload(id)))
                   /\ lastWrite' = [by |-> r, during |-> current]
                   /\ requests' = [requests EXCEPT
                                     ![r].sub = sub,
                                     ![r].phase = IF AllSettled(sub) THEN "done" ELSE @]
                   /\ searchLoading' = IF AllSettled(sub) THEN FALSE ELSE searchLoading
    /\ UNCHANGED <<inputValue, changes, current, searchError>>
    /\ UNCHANGED <<tleVars, passVars, getVars, globeVars, uiVars, serverVars, uploadVars, projectionVars>>

SearchNext ==
    \/ ChangeInput \/ TimerFire \/ GeocodeResponds \/ GeocodeFails \/ GeocodeBody
    \/ InfoResponds \/ InfoFails \/ InfoBody

(***************************************************************************)
(* The aggregation of the globe store (globeStore.ts:293-530).  The values *)
(* of an observation (temperature, precipitation, cloudcover, windspeed)   *)
(* are integers in tenths of their unit; a quotient is kept as a fraction  *)
(* [num, den] with den > 0, so that no rounding is introduced.  The        *)
(* weather API is outside the repository: a fetch ends rejected            *)
(* ("network_error"), with a non-OK status ("http_error"), or with one of  *)
(* the payloads given here.                                                *)
(***************************************************************************)
Frac(n, d) == [num |-> n, den |-> d]

FracLess(a, b) == a.num * b.den < b.num * a.den

FracZero == Frac(0, 1)

\* Math.min(1, n / d)
FracCapOne(n, d) == Frac(IF n > d THEN d ELSE n, d)

\* WEATHER_SAMPLE_LOCATIONS (lines 293-302), coordinates in 1e-6 degrees
WEATHER_SAMPLE_LOCATIONS ==
    << [id |-> "nyc", name |-> "New York", latitude |-> 40712800, longitude |-> -74006000],
       [id |-> "lon", name |-> "London", latitude |-> 51507200, longitude |-> -127600],
       [id |-> "dub", name |-> "Dubai", latitude |-> 25276987, longitude |-> 55296249],
       [id |-> "tok", name |-> "Tokyo", latitude |-> 35676200, longitude |-> 139650300],
       [id |-> "syd", name |-> "Sydney", latitude |-> -33868800, longitude |-> 151209300],
       [id |-> "nbo", name |-> "Nairobi", latitude |-> -1286400, longitude |-> 36817200],
       [id |-> "osl", name |-> "Oslo", latitude |-> 59913900, longitude |-> 10752200],
       [id |-> "scl", name |-> "Santiago", latitude |-> -33448900, longitude |-> -70669300] >>

Sites == DOMAIN WEATHER_SAMPLE_LOCATIONS

\* WEATHER_STATUS_THRESHOLDS (lines 304-309), in tenths
WEATHER_STATUS_THRESHOLDS ==
    [storm |-> [precipitation |-> 80, wind |-> 120],
     rain |-> [precipitation |-> 20],
     wind |-> [wind |-> 120],
     cloudy |-> [cloudcover |-> 450]]

\* a mutant of classifyWeather: rain is tested before storm
classifyWeather_RainFirst(cell) ==
    IF cell.precipitation >= WEATHER_STATUS_THRESHOLDS.rain.precipitation THEN "rain"
    ELSE IF cell.windspeed >= WEATHER_STATUS_THRESHOLDS.wind.wind THEN "wind"
    ELSE IF cell.cloudcover >= WEATHER_STATUS_THRESHOLDS.cloudy.cloudcover THEN "cloudy"
    ELSE "clear"

\* classifyWeather (lines 311-329)
classifyWeather(cell) ==
    IF /\ cell.precipitation >= WEATHER_STATUS_THRESHOLDS.storm.precipitation
       /\ cell.windspeed >= WEATHER_STATUS_THRESHOLDS.storm.wind
    THEN "storm"
    ELSE IF cell.precipitation >= WEATHER_STATUS_THRESHOLDS.rain.precipitation THEN "rain"
    ELSE IF cell.windspeed >= WEATHER_STATUS_THRESHOLDS.wind.wind THEN "wind"
    ELSE IF cell.cloudcover >= WEATHER_STATUS_THRESHOLDS.cloudy.cloudcover THEN "cloudy"
    ELSE "clear"

\* a mutant of normalize: the degenerate range is not tested
normalize_Unguarded(value, min, max) == Frac(value - min, max - min)

\* normalize (lines 331-334); every value of the model is finite
normalize(value, min, max) ==
    IF min = max THEN FracZero ELSE Frac(value - min, max - min)

\* the payload of /api/weather: current.temperature and current.windspeed
\* may be missing, the hourly arrays may be missing (<<>>) or of any length
Payload(temperature, windspeed, hTemperature, hPrecipitation, hCloudcover, hWindspeed) ==
    [current |-> [temperature |-> temperature, windspeed |-> windspeed],
     hourly |-> [temperature |-> hTemperature, precipitation |-> hPrecipitation,
                 cloudcover |-> hCloudcover, windspeed |-> hWindspeed]]

\* the payload with nothing in it
BarePayload == Payload(None, None, <<>>, <<>>, <<>>, <<>>)

\* the payload each site gets when the API answers in full
SitePayload(id) ==
    CASE id = "nyc" -> Payload(Some(215), Some(140), <<200, 210>>, <<0, 100>>, <<900, 1000>>, <<130, 150>>)
      [] id = "lon" -> Payload(None, Some(60), <<110, 120>>, <<10, 30>>, <<800, 900>>, <<40, 50>>)
      [] id = "dub" -> Payload(Some(380), Some(30), <<>>, <<0>>, <<0>>, <<>>)
      [] id = "tok" -> Payload(Some(250), Some(200), <<240, 245, 250>>, <<5, 0, 0>>, <<300, 200, 100>>, <<100, 150>>)
      [] id = "syd" -> Payload(Some(180), None, <<170, 180>>, <<20>>, <<500, 600>>, <<80, 90>>)
      [] id = "nbo" -> Payload(Some(230), Some(119), <<230>>, <<80>>, <<700>>, <<119>>)
      [] id = "osl" -> Payload(Some(-20), Some(120), <<-30, -20>>, <<70, 80>>, <<1000, 1000>>, <<110, 120>>)
      [] OTHER -> Payload(Some(150), Some(119), <<140, 150>>, <<18, 19>>, <<440, 449>>, <<100, 119>>)

\* list?.[index], for a 0-based index
At(list, index) == IF index + 1 \in DOMAIN list THEN Some(list[index + 1]) ELSE None

\* what fetchWeatherSample returns for a payload (lines 360-373)
ObservationOf(sample, payload) ==
    LET latestIndex == IF Len(payload.hourly.temperature) # 0
                       THEN Len(payload.hourly.temperature) - 1
                       ELSE 0
    IN  [id |-> sample.id,
         name |-> sample.name,
         latitude |-> sample.latitude,
         longitude |-> sample.longitude,
         temperature |->
            OrElse(OrElse(payload.current.temperature,
                          At(payload.hourly.temperature, latestIndex)), Some(0))[1],
         precipitation |-> OrElse(At(payload.hourly.precipitation, latestIndex), Some(0))[1],
         cloudcover |-> OrElse(At(payload.hourly.cloudcover, latestIndex), Some(0))[1],
         windspeed |->
            OrElse(OrElse(At(payload.hourly.windspeed, latestIndex),
                          payload.current.windspeed), Some(0))[1]]

\* a mutant of fetchWeatherSample: a failed fetch is turned into an empty
\* observation
fetchWeatherSample_ZeroOnFailure(sample, outcome) ==
    [status |-> "fulfilled",
     value |-> ObservationOf(sample, IF outcome = "full" THEN SitePayload(sample.id)
                                     ELSE BarePayload)]

\* fetchWeatherSample (lines 336-374): "fulfilled" with an observation, or
\* "rejected" when the fetch rejects or answers with a non-OK status
fetchWeatherSample(sample, outcome) ==
    IF outcome \in {"network_error", "http_error"}
    THEN [status |-> "rejected"]
    ELSE [status |-> "fulfilled",
          value |-> ObservationOf(sample, IF outcome = "bare" THEN BarePayload
                                          ELSE SitePayload(sample.id))]

\* item.status === "fulfilled" (line 387)
Fulfilled(item) == item.status = "fulfilled"

\* the value of a settled fetch; a rejected one has none
SettledValue(item) ==
    IF item.status = "fulfilled" THEN item.value ELSE [id |-> "undefined"]

\* fetchWeatherSamples (lines 378-390): Promise.allSettled, filter, map
fetchWeatherSamples(outcomes) ==
    LET results == [i \in Sites |->
                        fetchWeatherSample(WEATHER_SAMPLE_LOCATIONS[i], outcomes[i])]
        fulfilled == SelectSeq(results, Fulfilled)
    IN  [i \in DOMAIN fulfilled |-> SettledValue(fulfilled[i])]

RECURSIVE MinOf(_)
MinOf(list) ==
    IF Len(list) = 1 THEN list[1]
    ELSE LET rest == MinOf(Tail(list)) IN IF list[1] < rest THEN list[1] ELSE rest

RECURSIVE MaxOf(_)
MaxOf(list) ==
    IF Len(list) = 1 THEN list[1]
    ELSE LET rest == MaxOf(Tail(list)) IN IF list[1] > rest THEN list[1] ELSE rest

\* loadHeatmapData(observations) (lines 392-416)
loadHeatmapData(samples) ==
    IF Len(samples) = 0 THEN <<>>
    ELSE LET temperatures == [i \in DOMAIN samples |-> samples[i].temperature]
             min == MinOf(temperatures)
             max == MaxOf(temperatures)
         IN  [i \in DOMAIN samples |->
                [id |-> samples[i].id,
                 name |-> samples[i].name,
                 latitude |-> samples[i].latitude,
                 longitude |-> samples[i].longitude,
                 intensity |-> normalize(samples[i].temperature, min, max),
                 multipliers |-> << normalize(samples[i].precipitation, 0, 100),
                                    normalize(samples[i].windspeed, 0, 200) >>]]

\* a mutant of SeverityBase: the wind of a storm counts in full
SeverityBase_FullWind(status, cell) ==
    CASE status = "storm" -> 10 * cell.precipitation + 10 * cell.windspeed
      [] status = "rain" -> 10 * cell.precipitation
      [] status = "wind" -> 10 * cell.windspeed
      [] status = "cloudy" -> 10 * cell.cloudcover
      [] OTHER -> 500

\* severityBase (lines 429-438), in hundredths
SeverityBase(status, cell) ==
    CASE status = "storm" -> 10 * cell.precipitation + 4 * cell.windspeed
      [] status = "rain" -> 10 * cell.precipitation
      [] status = "wind" -> 10 * cell.windspeed
      [] status = "cloudy" -> 10 * cell.cloudcover
      [] OTHER -> 500

\* the WeatherCell of an observation (lines 423-451); severity is
\* Math.min(1, severityBase / 20)
WeatherCellOf(cell) ==
    LET status == classifyWeather([precipitation |-> cell.precipitation,
                                   windspeed |-> cell.windspeed,
                                   cloudcover |-> cell.cloudcover])
    IN  [id |-> cell.id,
         latitude |-> cell.latitude,
         longitude |-> cell.longitude,
         status |-> status,
         severity |-> FracCapOne(SeverityBase(status, cell), 2000),
         multipliers |-> << normalize(cell.precipitation, 0, 120),
                            normalize(cell.windspeed, 0, 300) >>]

\* loadWeatherCells(observations) (lines 418-452)
loadWeatherCells(samples) == [i \in DOMAIN samples |-> WeatherCellOf(samples[i])]

\* a mutant of TimelineHours: the last offset repeats the one before
TimelineHours_Repeated == <<-6, -3, 0, 3, 6, 6>>

\* const hours = [-6, -3, 0, 3, 6, 9] (line 458)
TimelineHours == <<-6, -3, 0, 3, 6, 9>>

Abs(n) == IF n < 0 THEN -n ELSE n

RECURSIVE SumSeverity(_)
\* cells.reduce((acc, cell) => acc + cell.severity, 0), over the common
\* denominator of the severities
SumSeverity(cells) ==
    IF cells = <<>> THEN 0
    ELSE (Head(cells).severity.num * 2000) \div Head(cells).severity.den
         + SumSeverity(Tail(cells))

\* the mean of line 463: the sum over Math.max(cells.length, 1)
MeanSeverity(cells) ==
    Frac(SumSeverity(cells), 2000 * (IF Len(cells) > 1 THEN Len(cells) ELSE 1))

\* a mutant of Ramp: the ramp is not capped
Ramp_Uncapped(mean, index, hundredths) ==
    Frac(mean.num + (index * hundredths * mean.den) \div 100, mean.den)

\* Math.min(1, severity + index * step) (lines 475-476), step in hundredths
Ramp(mean, index, hundredths) ==
    FracCapOne(mean.num + (index * hundredths * mean.den) \div 100, mean.den)

\* the label of line 466
TimelineLabel(offset) ==
    IF offset = 0 THEN "Now"
    ELSE IF offset > 0 THEN "+" \o ToString(offset) \o "h"
    ELSE ToString(offset) \o "h"

\* the description of lines 467-472
TimelineDescription(offset) ==
    IF offset = 0 THEN "Live conditions across monitored sites."
    ELSE IF offset > 0 THEN "Projected weather pattern shift."
    ELSE "Historical snapshot from earlier today."

\* the event of lines 460-479 for a 0-based index; the timestamp is in
\* milliseconds after now
TimelineEventOf(cells, index) ==
    LET offset == TimelineHours[index + 1]
        severity == MeanSeverity(cells)
    IN  [id |-> "event-" \o ToString(index),
         label |-> TimelineLabel(offset),
         description |-> TimelineDescription(offset),
         timestamp |-> offset * 60 * 60 * 1000,
         overlayMultipliers |->
            [heatmap |-> Ramp(severity, index, 5),
             weather |-> Ramp(severity, index, 8),
             routes |-> Frac(IF 100 - 5 * Abs(offset) < 40 THEN 40
                             ELSE 100 - 5 * Abs(offset), 100)]]

\* loadTimeline (lines 454-481)
loadTimeline(cells) ==
    [i \in DOMAIN TimelineHours |-> TimelineEventOf(cells, i - 1)]

\* (a, b) => b.intensity - a.intensity < 0: a goes before b
HotterThan(a, b) == FracLess(b.intensity, a.intensity)

RECURSIVE InsertByIntensity(_, _)
\* Array.prototype.sort is stable: a point goes after the points that do not
\* compare after it
InsertByIntensity(sorted, point) ==
    IF sorted = <<>> THEN <<point>>
    ELSE IF HotterThan(point, Head(sorted)) THEN <<point>> \o sorted
    ELSE <<Head(sorted)>> \o InsertByIntensity(Tail(sorted), point)

RECURSIVE SortByIntensity(_)
SortByIntensity(points) ==
    IF points = <<>> THEN <<>>
    ELSE InsertByIntensity(SortByIntensity(SubSeq(points, 1, Len(points) - 1)),
                           points[Len(points)])

\* .slice(0, 6) (line 488)
TopSix(sorted) == SubSeq(sorted, 1, IF Len(sorted) < 6 THEN Len(sorted) ELSE 6)

\* a mutant of ArcIndexes: the loop visits every index
ArcIndexes_All(sorted) == [i \in 1..Len(sorted) |-> i - 1]

\* the indexes the loop of line 491 visits: 0 .. sorted.length - 2
ArcIndexes(sorted) == [i \in 1..(Len(sorted) - 1) |-> i - 1]

\* (from.intensity + to.intensity) / 2
Average(a, b) == Frac(a.num * b.den + b.num * a.den, 2 * a.den * b.den)

\* the arc of lines 492-508 for a 0-based index
ArcOf(sorted, index) ==
    LET from == sorted[index + 1]
        to == sorted[((index + 2) % Len(sorted)) + 1]
    IN  [id |-> from.id \o "-" \o to.id,
         from |-> [name |-> from.name, latitude |-> from.latitude,
                   longitude |-> from.longitude],
         to |-> [name |-> to.name, latitude |-> to.latitude, longitude |-> to.longitude],
         magnitude |-> Average(from.intensity, to.intensity),
         multipliers |-> from.multipliers]

\* buildRouteArcs (lines 483-512)
buildRouteArcs(points) ==
    IF Len(points) < 2 THEN <<>>
    ELSE LET sorted == TopSix(SortByIntensity(points))
             indexes == ArcIndexes(sorted)
         IN  [i \in DOMAIN indexes |-> ArcOf(sorted, indexes[i])]

\* loadGlobeData (lines 514-530), from the way each site's fetch ends
loadGlobeData(outcomes) ==
    LET observations_ == fetchWeatherSamples(outcomes)
        heatmapPoints_ == loadHeatmapData(observations_)
        weatherCells_ == loadWeatherCells(observations_)
    IN  [heatmapPoints |-> heatmapPoints_,
         weatherCells |-> weatherCells_,
         routeArcs |-> buildRouteArcs(heatmapPoints_),
         timeline |-> loadTimeline(weatherCells_)]

\* the observations a batch may hold (lines 364-373)
ObservationGrid ==
    [precipitation : {0, 19, 20, 79, 80, 250},
     windspeed : {0, 119, 120, 300},
     cloudcover : {0, 449, 450}]

\* the severities a weather cell may carry, over 2000
SeverityGrid == {0, 1, 500, 1000, 1999, 2000}

\* the heatmap points buildRouteArcs may be given: distinct ids, intensities
\* in tenths
PointPool ==
    << [id |-> "h1", intensity |-> Frac(9, 10)], [id |-> "h2", intensity |-> Frac(5, 10)],
       [id |-> "h3", intensity |-> Frac(7, 10)], [id |-> "h4", intensity |-> Frac(3, 10)],
       [id |-> "h5", intensity |-> Frac(6, 10)], [id |-> "h6", intensity |-> Frac(2, 10)],
       [id |-> "h7", intensity |-> Frac(7, 10)], [id |-> "h8", intensity |-> Frac(10, 10)] >>

HeatmapPointOf(p) ==
    [id |-> p.id, name |-> p.id, latitude |-> 0, longitude |-> 0,
     intensity |-> p.intensity, multipliers |-> <<FracZero, FracZero>>]

GlobeStart ==
    /\ siteOutcome = [i \in Sites |-> "full"]
    /\ observations = <<>>
    /\ heatmapPoints = <<>>
    /\ weatherCells = <<>>
    /\ routeArcs = <<>>
    /\ timeline = <<>>
    /\ globePc = "input"

\* the weather fetch of a site rejects or answers with a non-OK status
SiteFails ==
    /\ globePc = "input"
    /\ \E i \in Sites, outcome \in {"network_error", "http_error"} :
          /\ siteOutcome[i] = "full"
          /\ siteOutcome' = [siteOutcome EXCEPT ![i] = outcome]
    /\ UNCHANGED <<observations, heatmapPoints, weatherCells, routeArcs, timeline, globePc>>
    /\ UNCHANGED <<tleVars, passVars, getVars, searchVars, uiVars, serverVars, uploadVars, projectionVars>>

\* the weather API answers a site with a payload that has nothing in it
SiteBare ==
    /\ globePc = "input"
    /\ \E i \in Sites :
          /\ siteOutcome[i] = "full"
          /\ siteOutcome' = [siteOutcome EXCEPT ![i] = "bare"]
    /\ UNCHANGED <<observations, heatmapPoints, weatherCells, routeArcs, timeline, globePc>>
    /\ UNCHANGED <<tleVars, passVars, getVars, searchVars, uiVars, serverVars, uploadVars, projectionVars>>

\* export async function loadGlobeData()
LoadGlobeData ==
    /\ globePc = "input"
    /\ LET data == loadGlobeData(siteOutcome)
       IN  /\ observations' = fetchWeatherSamples(siteOutcome)
           /\ heatmapPoints' = data.heatmapPoints
           /\ weatherCells' = data.weatherCells
           /\ routeArcs' = data.routeArcs
           /\ timeline' = data.timeline
    /\ globePc' = "done"
    /\ UNCHANGED siteOutcome
    /\ UNCHANGED <<tleVars, passVars, getVars, searchVars, uiVars, serverVars, uploadVars, projectionVars>>

GlobeNext == SiteFails \/ SiteBare \/ LoadGlobeData

\* the batch given to loadWeatherCells holds one more observation
AddObservation ==
    /\ globePc = "input"
    /\ Len(observations) < MaxObservations
    /\ \E values \in ObservationGrid :
          observations' = Append(observations,
              [id |-> WEATHER_SAMPLE_LOCATIONS[Len(observations) + 1].id,
               name |-> WEATHER_SAMPLE_LOCATIONS[Len(observations) + 1].name,
               latitude |-> WEATHER_SAMPLE_LOCATIONS[Len(observations) + 1].latitude,
               longitude |-> WEATHER_SAMPLE_LOCATIONS[Len(observations) + 1].longitude,
               temperature |-> 0,
               precipitation |-> values.precipitation,
               cloudcover |-> values.cloudcover,
               windspeed |-> values.windspeed])
    /\ UNCHANGED <<siteOutcome, heatmapPoints, weatherCells, routeArcs, timeline, globePc>>
    /\ UNCHANGED <<tleVars, passVars, getVars, searchVars, uiVars, serverVars, uploadVars, projectionVars>>

\* export async function loadWeatherCells(observations)
LoadWeatherCells ==
    /\ globePc = "input"
    /\ weatherCells' = loadWeatherCells(observations)
    /\ globePc' = "done"
    /\ UNCHANGED <<siteOutcome, observations, heatmapPoints, routeArcs, timeline>>
    /\ UNCHANGED <<tleVars, passVars, getVars, searchVars, uiVars, serverVars, uploadVars, projectionVars>>

WeatherNext == AddObservation \/ LoadWeatherCells

\* the list given to loadTimeline holds one more cell
AddCell ==
    /\ globePc = "input"
    /\ Len(weatherCells) < MaxCells
    /\ \E s \in SeverityGrid :
          weatherCells' = Append(weatherCells,
              [id |-> WEATHER_SAMPLE_LOCATIONS[Len(weatherCells) + 1].id,
               latitude |-> WEATHER_SAMPLE_LOCATIONS[Len(weatherCells) + 1].latitude,
               longitude |-> WEATHER_SAMPLE_LOCATIONS[Len(weatherCells) + 1].longitude,
               status |-> "clear",
               severity |-> Frac(s, 2000),
               multipliers |-> <<FracZero, FracZero>>])
    /\ UNCHANGED <<siteOutcome, observations, heatmapPoints, routeArcs, timeline, globePc>>
    /\ UNCHANGED <<tleVars, passVars, getVars, searchVars, uiVars, serverVars, uploadVars, projectionVars>>

\* export async function loadTimeline(cells)
LoadTimeline ==
    /\ globePc = "input"
    /\ timeline' = loadTimeline(weatherCells)
    /\ globePc' = "done"
    /\ UNCHANGED <<siteOutcome, observations, heatmapPoints, weatherCells, routeArcs>>
    /\ UNCHANGED <<tleVars, passVars, getVars, searchVars, uiVars, serverVars, uploadVars, projectionVars>>

TimelineNext == AddCell \/ LoadTimeline

\* the list given to buildRouteArcs holds one more point
AddPoint ==
    /\ globePc = "input"
    /\ Len(heatmapPoints) < MaxPoints
    /\ \E p \in DOMAIN PointPool :
          /\ \A i \in DOMAIN heatmapPoints : heatmapPoints[i].id # PointPool[p].id
          /\ heatmapPoints' = Append(heatmapPoints, HeatmapPointOf(PointPool[p]))
    /\ UNCHANGED <<siteOutcome, observations, weatherCells, routeArcs, timeline, globePc>>
    /\ UNCHANGED <<tleVars, passVars, getVars, searchVars, uiVars, serverVars, uploadVars, projectionVars>>

\* export function buildRouteArcs(points)
BuildRouteArcs ==
    /\ globePc = "input"
    /\ routeArcs' = buildRouteArcs(heatmapPoints)
    /\ globePc' = "done"
    /\ UNCHANGED <<siteOutcome, observations, heatmapPoints, weatherCells, timeline>>
    /\ UNCHANGED <<tleVars, passVars, getVars, searchVars, uiVars, serverVars, uploadVars, projectionVars>>

ArcsNext == AddPoint \/ BuildRouteArcs

(***************************************************************************)
(* The globe store's timeline fields and GlobeDataProvider                 *)
(* (src/ui/src/stores/globeStore.ts:179-276,                                *)
(* src/ui/src/components/SettingsPanel.tsx:301-373).  The store is a        *)
(* module-level object and outlives the provider; the provider's refs and   *)
(* the ignore flag of its hydrate effect belong to one mount.  A store      *)
(* update, the render it causes and the effects of that render run before   *)
(* the next timer callback, so an action holds all three.                   *)
(***************************************************************************)
MathMin(a, b) == IF a < b THEN a ELSE b
MathMax(a, b) == IF a > b THEN a ELSE b

\* setTimelineIndex (lines 215-226), once the updater, if any, was applied
setTimelineIndex(state, nextIndex) ==
    [state EXCEPT !.timelineIndex =
        MathMax(0, MathMin(nextIndex, MathMax(Len(state.timeline) - 1, 0)))]

\* setIsPlayingTimeline (lines 227-233), once the updater, if any, was applied
setIsPlayingTimeline(state, playing) == [state EXCEPT !.isPlayingTimeline = playing]

setHeatmapPoints(state, points) == [state EXCEPT !.heatmapPoints = points]
setRouteArcs(state, routes) == [state EXCEPT !.routeArcs = routes]
setWeatherCells(state, cells) == [state EXCEPT !.weatherCells = cells]

\* a mutant of setTimeline: the index is left as it is
setTimeline_NoClamp(state, events) == [state EXCEPT !.timeline = events]

\* setTimeline (lines 237-241)
setTimeline(state, events) ==
    [state EXCEPT !.timeline = events,
                  !.timelineIndex = MathMin(state.timelineIndex,
                                            MathMax(Len(events) - 1, 0))]

\* the ways loadGlobeData may end, by how the sites' fetches end
OutcomePool ==
    << [i \in Sites |-> "full"],
       [i \in Sites |-> IF i = 1 THEN "network_error" ELSE "full"],
       [i \in Sites |-> IF i <= 6 THEN "http_error" ELSE "bare"] >>

\* the result of loadGlobeData for each of them
GlobeDataPool == [k \in DOMAIN OutcomePool |-> loadGlobeData(OutcomePool[k])]

\* a mutant of WriteGlobeData: the route arcs are not written
WriteGlobeData_NoRoutes(state, data) ==
    setTimelineIndex(
        setTimeline(
            setWeatherCells(setHeatmapPoints(state, data.heatmapPoints), data.weatherCells),
            data.timeline),
        0)

\* the five writes of hydrate (lines 328-332)
WriteGlobeData(state, data) ==
    setTimelineIndex(
        setTimeline(
            setRouteArcs(
                setWeatherCells(setHeatmapPoints(state, data.heatmapPoints),
                                data.weatherCells),
                data.routeArcs),
            data.timeline),
        0)

\* the provider is mounted: its latest hydrate effect was not cleaned up
Mounted == ignore # <<>> /\ ~ignore[Len(ignore)]

\* a mutant of ClearInterval: the interval goes on
ClearInterval_Kept(active, ref) == active

\* if (ref.current) clearInterval(ref.current)
ClearInterval(active, ref) ==
    IF ref = None THEN active ELSE {iv \in active : iv.id # ref[1]}

\* the id setInterval returns: one that no live interval has
FreshTimer(active) ==
    CHOOSE id \in 1..(Cardinality(active) + 1) :
        /\ \A iv \in active : iv.id # id
        /\ \A other \in 1..(id - 1) : \E iv \in active : iv.id = other

\* the playback effect (lines 349-373) with the cleanup of its previous run:
\* the interval it starts keeps the timeline of this render
PlaybackEffect(state, ref, active) ==
    LET cleared == ClearInterval(active, ref)
    IN  IF ~state.isPlayingTimeline \/ Len(state.timeline) = 0
        THEN [ref |-> None, active |-> cleared]
        ELSE [ref |-> Some(FreshTimer(cleared)),
              active |-> cleared \cup {[id |-> FreshTimer(cleared),
                                        length |-> Len(state.timeline)]}]

\* the store changed: the playback effect runs again if the provider is
\* mounted and isPlayingTimeline is another value or timeline another array
\* than before (line 373)
Rerender(state, timelineReplaced) ==
    IF Mounted /\ (state.isPlayingTimeline # store.isPlayingTimeline \/ timelineReplaced)
    THEN LET effect == PlaybackEffect(state, timelineTimerRef, intervals)
         IN  /\ timelineTimerRef' = effect.ref
             /\ intervals' = effect.active
    ELSE UNCHANGED <<timelineTimerRef, intervals>>

\* a mutant of TickUpdater: the index stops at the last event
TickUpdater_NoWrap(length, currentIndex) ==
    IF currentIndex + 1 >= length THEN currentIndex ELSE currentIndex + 1

\* the updater of the playback interval (lines 359-365)
TickUpdater(length, currentIndex) ==
    IF currentIndex + 1 >= length THEN 0 ELSE currentIndex + 1

\* the timelines setTimeline may be given besides those of loadGlobeData
TimelinePool == {SubSeq(loadTimeline(<<>>), 1, n) : n \in {0, 1, 3}}

\* the updaters setTimelineIndex may be given
Updaters == {"next", "previous", "double", "negate"}
ApplyUpdater(updater, currentIndex) ==
    CASE updater = "next" -> currentIndex + 1
      [] updater = "previous" -> currentIndex - 1
      [] updater = "double" -> 2 * currentIndex + 7
      [] OTHER -> 0 - currentIndex - 1

apiVars == <<tleVars, passVars, getVars, searchVars, globeVars>>

ProviderStart ==
    /\ store = [heatmapPoints |-> <<>>, routeArcs |-> <<>>, weatherCells |-> <<>>,
                timeline |-> <<>>, timelineIndex |-> 0, isPlayingTimeline |-> FALSE]
    /\ ignore = <<>>
    /\ cycles = <<>>
    /\ timelineTimerRef = None
    /\ intervals = {}

\* hydrate() is called: by the effect (line 338) or by the refresh interval
NewCycle == [effect |-> Len(ignore), pc |-> "loading", data |-> 0]

\* GlobeDataProvider mounts: the hydrate effect (lines 320-339) and the
\* playback effect run, with fresh refs
Mount ==
    /\ ~Mounted
    /\ Len(ignore) < MaxMounts
    /\ Len(cycles) < MaxCycles
    /\ ignore' = Append(ignore, FALSE)
    /\ cycles' = Append(cycles, [effect |-> Len(ignore) + 1, pc |-> "loading", data |-> 0])
    /\ LET effect == PlaybackEffect(store, None, intervals)
       IN  /\ timelineTimerRef' = effect.ref
           /\ intervals' = effect.active
    /\ UNCHANGED store
    /\ UNCHANGED <<apiVars, recentVars, serverVars, uploadVars, projectionVars>>

\* GlobeDataProvider unmounts: the cleanups of lines 341-346 and 368-372
Unmount ==
    /\ Mounted
    /\ ignore' = [ignore EXCEPT ![Len(ignore)] = TRUE]
    /\ intervals' = ClearInterval(intervals, timelineTimerRef)
    /\ timelineTimerRef' = None
    /\ UNCHANGED <<store, cycles>>
    /\ UNCHANGED <<apiVars, recentVars, serverVars, uploadVars, projectionVars>>

\* the refresh interval of line 339 fires
RefreshTick ==
    /\ Mounted
    /\ Len(cycles) < MaxCycles
    /\ cycles' = Append(cycles, NewCycle)
    /\ UNCHANGED <<store, ignore, timelineTimerRef, intervals>>
    /\ UNCHANGED <<apiVars, recentVars, serverVars, uploadVars, projectionVars>>

\* loadGlobeData of a cycle resolves and hydrate goes on from line 327
LoadResolves ==
    /\ \E c \in DOMAIN cycles, k \in DOMAIN GlobeDataPool :
          /\ cycles[c].pc = "loading"
          /\ IF ignore[cycles[c].effect]
             THEN /\ cycles' = [cycles EXCEPT ![c].pc = "ignored"]
                  /\ UNCHANGED <<store, timelineTimerRef, intervals>>
             ELSE /\ cycles' = [cycles EXCEPT ![c].pc = "written", ![c].data = k]
                  /\ store' = WriteGlobeData(store, GlobeDataPool[k])
                  /\ Rerender(store', TRUE)
    /\ UNCHANGED ignore
    /\ UNCHANGED <<apiVars, recentVars, serverVars, uploadVars, projectionVars>>

\* the play button (GlobeControlPanel.tsx:390)
TogglePlay ==
    /\ store' = setIsPlayingTimeline(store, ~store.isPlayingTimeline)
    /\ Rerender(store', FALSE)
    /\ UNCHANGED <<ignore, cycles>>
    /\ UNCHANGED <<apiVars, recentVars, serverVars, uploadVars, projectionVars>>

\* the timeline slider (GlobeControlPanel.tsx:741-750)
SlideTimeline ==
    /\ Len(store.timeline) > 0
    /\ \E value \in 0..MathMax(Len(store.timeline) - 1, 0) :
          store' = setTimelineIndex(store, value)
    /\ UNCHANGED <<ignore, cycles, timelineTimerRef, intervals>>
    /\ UNCHANGED <<apiVars, recentVars, serverVars, uploadVars, projectionVars>>

\* a playback interval fires (lines 358-366)
PlaybackTick ==
    /\ \E iv \in intervals :
          store' = setTimelineIndex(store, TickUpdater(iv.length, store.timelineIndex))
    /\ UNCHANGED <<ignore, cycles, timelineTimerRef, intervals>>
    /\ UNCHANGED <<apiVars, recentVars, serverVars, uploadVars, projectionVars>>

ProviderNext ==
    \/ Mount \/ Unmount \/ RefreshTick \/ LoadResolves
    \/ TogglePlay \/ SlideTimeline \/ PlaybackTick

\* setTimeline is called with some list of events
SetTimeline ==
    /\ \E events \in TimelinePool :
          /\ store' = setTimeline(store, events)
          /\ Rerender(store', TRUE)
    /\ UNCHANGED <<ignore, cycles>>
    /\ UNCHANGED <<apiVars, recentVars, serverVars, uploadVars, projectionVars>>

\* setTimelineIndex is called with an integer
SetTimelineIndex ==
    /\ \E index \in -2..7 : store' = setTimelineIndex(store, index)
    /\ UNCHANGED <<ignore, cycles, timelineTimerRef, intervals>>
    /\ UNCHANGED <<apiVars, recentVars, serverVars, uploadVars, projectionVars>>

\* setTimelineIndex is called with an updater
SetTimelineIndexWith ==
    /\ \E updater \in Updaters :
          store' = setTimelineIndex(store, ApplyUpdater(updater, store.timelineIndex))
    /\ UNCHANGED <<ignore, cycles, timelineTimerRef, intervals>>
    /\ UNCHANGED <<apiVars, recentVars, serverVars, uploadVars, projectionVars>>

StoreNext == ProviderNext \/ SetTimeline \/ SetTimelineIndex \/ SetTimelineIndexWith

(***************************************************************************)
(* pushRecentQuery (src/ui/src/stores/globeStore.ts:271-275).               *)
(***************************************************************************)
\* list.slice(0, count)
Slice(list, count) == SubSeq(list, 1, MathMin(Len(list), count))

\* a mutant of pushRecentQuery: the entry of the same id is not filtered out
pushRecentQuery_NoFilter(list, result) == Slice(<<result>> \o list, RECENT_QUERIES_LIMIT)

pushRecentQuery(list, result) ==
    LET filtered == SelectSeq(list, LAMBDA item : item.id # result.id)
    IN  Slice(<<result>> \o filtered, RECENT_QUERIES_LIMIT)

\* the result object of the n-th call for the location of the given number
QueryResult(number, n) == [id |-> "loc-" \o ToString(number), call |-> n]

RecentStart ==
    /\ recentQueries = <<>>
    /\ pushes = 0
    /\ known = 0
    /\ repushes = 0

\* pushRecentQuery with a result whose id was never pushed
PushNew ==
    /\ pushes < MaxPushes
    /\ recentQueries' = pushRecentQuery(recentQueries, QueryResult(known + 1, pushes + 1))
    /\ pushes' = pushes + 1
    /\ known' = known + 1
    /\ UNCHANGED repushes
    /\ UNCHANGED <<apiVars, providerVars, serverVars, uploadVars, projectionVars>>

\* pushRecentQuery with a result whose id was pushed before, be it still in
\* the list or not
PushAgain ==
    /\ pushes < MaxPushes
    /\ repushes < MaxRepushes
    /\ \E number \in 1..known :
          recentQueries' = pushRecentQuery(recentQueries, QueryResult(number, pushes + 1))
    /\ pushes' = pushes + 1
    /\ repushes' = repushes + 1
    /\ UNCHANGED known
    /\ UNCHANGED <<apiVars, providerVars, serverVars, uploadVars, projectionVars>>

RecentNext == PushNew \/ PushAgain

(***************************************************************************)
(* POST /api/http-server (src/ui/src/app/api/http-server/route.ts).         *)
(***************************************************************************)
\* the bodies a request may carry: none that parses, or an object whose port
\* is a number, something else, or missing
Bodies ==
    { [kind |-> "unparsable", port |-> 0],
      [kind |-> "number", port |-> 8080],
      [kind |-> "number", port |-> 9000],
      [kind |-> "string", port |-> 8080],
      [kind |-> "missing", port |-> 0] }

\* typeof body.port === "number" ? body.port : 1339 (line 10)
PortOf(body) == IF body.kind = "number" THEN body.port ELSE DEFAULT_PORT

\* httpServerProcess && !httpServerProcess.killed (line 12)
HandleRunning == httpServerProcess # None /\ ~spawned[httpServerProcess[1]].killed

\* the child processes spawned so far that have not ended
Alive == {p \in DOMAIN spawned : spawned[p].running}

ServerStart ==
    /\ httpServerProcess = None
    /\ spawned = <<>>
    /\ reply = None
    /\ atRequest = [alive |-> {}]
    /\ posts = 0

\* export async function POST(request), with spawn returning a child process
Post ==
    /\ posts < MaxPosts
    /\ \E body \in Bodies :
          IF HandleRunning
          THEN /\ reply' = Some([status |-> "already_running", port |-> PortOf(body)])
               /\ UNCHANGED <<httpServerProcess, spawned>>
          ELSE /\ spawned' = Append(spawned, [port |-> PortOf(body), running |-> TRUE,
                                              killed |-> FALSE])
               /\ httpServerProcess' = Some(Len(spawned) + 1)
               /\ reply' = Some([status |-> "started", port |-> PortOf(body)])
    /\ atRequest' = [alive |-> {spawned[p].port : p \in Alive}]
    /\ posts' = posts + 1
    /\ UNCHANGED <<apiVars, uiVars, uploadVars, projectionVars>>

\* POST where spawn throws (lines 27-32)
PostSpawnThrows ==
    /\ posts < MaxPosts
    /\ ~HandleRunning
    /\ reply' = Some([status |-> "error", port |-> 0])
    /\ atRequest' = [alive |-> {spawned[p].port : p \in Alive}]
    /\ posts' = posts + 1
    /\ UNCHANGED <<httpServerProcess, spawned>>
    /\ UNCHANGED <<apiVars, uiVars, uploadVars, projectionVars>>

\* a spawned server ends: it could not start, it crashed or it was stopped
\* from outside; the route has no handler for this and never calls kill()
ServerExits ==
    /\ \E p \in Alive : spawned' = [spawned EXCEPT ![p].running = FALSE]
    /\ UNCHANGED <<httpServerProcess, reply, atRequest, posts>>
    /\ UNCHANGED <<apiVars, uiVars, uploadVars, projectionVars>>

ServerNext == Post \/ PostSpawnThrows \/ ServerExits

(***************************************************************************)
(* UploadButton and the analysis store                                      *)
(* (src/ui/src/components/UploadButton.tsx,                                 *)
(* src/src/stores/analysisStore.ts:134-155).  Coordinates are in 1/10000    *)
(* of a degree.  The progress animation of lines 79-89 only writes          *)
(* uploadProgress and is left out.                                          *)
(***************************************************************************)
\* FALLBACK_COORDINATES (lines 7-11)
FALLBACK_COORDINATES ==
    [latitude |-> 356895, longitude |-> 1396917,
     google_maps_url |-> Some("https://www.google.com/maps?q=35.6895,139.6917")]

\* a value of a JSON payload by its typeof
Number(n) == [typeof |-> "number", value |-> n]
Text(t) == [typeof |-> "string", value |-> t]
Undefined == [typeof |-> "undefined", value |-> 0]

\* { latitude, longitude, google_maps_url } as the backend sends them
Coords(latitude, longitude) ==
    Some([latitude |-> latitude, longitude |-> longitude, google_maps_url |-> None])

\* payload.analysis with the fields the button reads
Analysis(locations, gps, error) ==
    Some([locations |-> locations, exif_gps |-> gps, error |-> error])

\* what response.json() may give: null for a body that does not parse
\* (line 139), or a payload
UploadPayloads ==
    { None,
      Some([analysis |-> None]),
      Some([analysis |-> Analysis(<<[coordinates |-> None],
                                    [coordinates |-> Coords(Number(488566), Number(23522))],
                                    [coordinates |-> Coords(Number(515072), Number(-1276))]>>,
                                  Coords(Number(-338688), Number(1512093)), None)]),
      Some([analysis |-> Analysis(<<[coordinates |-> Coords(Text("48.8566"), Number(23522))]>>,
                                  Coords(Number(-338688), Number(1512093)), None)]),
      Some([analysis |-> Analysis(<<>>, Coords(Number(-338688), Undefined), None)]),
      Some([analysis |-> Analysis(<<[coordinates |-> Coords(Undefined, Text("2.3522"))]>>,
                                  None, Some("no location found"))]) }

\* coords && typeof coords.latitude === "number" && typeof coords.longitude
\* === "number" (lines 22, 33)
NumericCoords(coords) ==
    /\ coords # None
    /\ coords[1].latitude.typeof = "number"
    /\ coords[1].longitude.typeof = "number"

\* the target a pair of numeric coordinates becomes
TargetOf(coords) ==
    [latitude |-> coords[1].latitude.value, longitude |-> coords[1].longitude.value,
     google_maps_url |-> coords[1].google_maps_url]

\* a mutant of extractCoordinates: the EXIF coordinates are taken as they are
extractCoordinates_ExifUnchecked(payload) ==
    IF payload = None \/ payload[1].analysis = None THEN None
    ELSE LET analysis == payload[1].analysis[1]
             numeric == SelectSeq(analysis.locations,
                                  LAMBDA location : NumericCoords(location.coordinates))
         IN  IF numeric # <<>> THEN Some(TargetOf(numeric[1].coordinates))
             ELSE IF analysis.exif_gps # None THEN Some(TargetOf(analysis.exif_gps))
             ELSE None

\* extractCoordinates (lines 16-38)
extractCoordinates(payload) ==
    IF payload = None \/ payload[1].analysis = None THEN None
    ELSE LET analysis == payload[1].analysis[1]
             numeric == SelectSeq(analysis.locations,
                                  LAMBDA location : NumericCoords(location.coordinates))
         IN  IF numeric # <<>> THEN Some(TargetOf(numeric[1].coordinates))
             ELSE IF NumericCoords(analysis.exif_gps) THEN Some(TargetOf(analysis.exif_gps))
             ELSE None

\* setPhase (analysisStore.ts:138-142)
setPhase(state, phase) ==
    [state EXCEPT !.phase = phase,
                  !.uploadProgress = IF phase = "uploading" THEN 0 ELSE 100]

setTarget(state, target) == [state EXCEPT !.target = target]
setUploadProgress(state, progress) == [state EXCEPT !.uploadProgress = progress]
setError(state, message) == [state EXCEPT !.errorMessage = message]
setSettingsOpen(state, open) == [state EXCEPT !.settingsOpen = open]
setAnalysis(state, payload) == [state EXCEPT !.analysis = payload]

\* handleFileChange up to its fetch (lines 109-113)
BeginUpload(state) ==
    setAnalysis(setError(setUploadProgress(setTarget(setPhase(state, "uploading"), None), 0),
                         None), None)

\* the catch of lines 151-156, up to the timer of simulateAnalysisSequence
CatchUpload(state) ==
    setPhase(setAnalysis(setError(state, Some("Upload failed. Showing mock tracking sequence.")),
                         None),
             "analyzing")

\* lines 141-147: the payload and its error, if any, go to the store
KeepPayload(state, payload) ==
    IF payload = None THEN state
    ELSE LET kept == setAnalysis(state, payload)
         IN  IF payload[1].analysis # None /\ payload[1].analysis[1].error # None
             THEN setError(kept, payload[1].analysis[1].error)
             ELSE kept

UploadStart ==
    /\ analysisStore = [phase |-> "idle", target |-> None, uploadProgress |-> 0,
                        errorMessage |-> None, analysis |-> None, settingsOpen |-> FALSE]
    /\ uploads = <<>>

\* an upload with nothing pending: no fetch, no body read, no timer
Finished(upload) == upload.pc = "done"

\* a file is chosen: handleFileChange runs up to await fetch (lines 102-123)
ChooseFile ==
    /\ Len(uploads) < MaxUploads
    /\ analysisStore' = BeginUpload(analysisStore)
    /\ uploads' = Append(uploads, [pc |-> "fetch", coords |-> None, outcome |-> "pending",
                                   payload |-> None])
    /\ UNCHANGED <<apiVars, uiVars, serverVars, projectionVars>>

\* a file is chosen while no earlier upload has anything pending
ChooseFileAlone ==
    /\ \A u \in DOMAIN uploads : Finished(uploads[u])
    /\ ChooseFile

\* the fetch rejects, or the response is not OK and not a 422: the catch runs
\* the scan sequence with the fallback (lines 134, 151-156, 77, 91)
UploadFails ==
    /\ \E u \in DOMAIN uploads, failure \in {"network_error", "http_500"} :
          /\ uploads[u].pc = "fetch"
          /\ analysisStore' = CatchUpload(analysisStore)
          /\ uploads' = [uploads EXCEPT ![u] = [pc |-> "timer2000",
                                                coords |-> Some(FALLBACK_COORDINATES),
                                                outcome |-> failure,
                                                payload |-> None]]
    /\ UNCHANGED <<apiVars, uiVars, serverVars, projectionVars>>

\* the response is a 422 (lines 126-133)
UploadRejected ==
    /\ \E u \in DOMAIN uploads :
          /\ uploads[u].pc = "fetch"
          /\ analysisStore' =
                setSettingsOpen(
                    setError(setPhase(analysisStore, "idle"),
                             Some("Backend rejected the request. Please confirm your Gemini API key is configured in Settings.")),
                    TRUE)
          /\ uploads' = [uploads EXCEPT ![u].pc = "done", ![u].outcome = "http_422"]
    /\ UNCHANGED <<apiVars, uiVars, serverVars, projectionVars>>

\* the response is OK: handleFileChange awaits response.json() (line 137)
UploadResponds ==
    /\ \E u \in DOMAIN uploads :
          /\ uploads[u].pc = "fetch"
          /\ uploads' = [uploads EXCEPT ![u].pc = "json"]
    /\ UNCHANGED analysisStore
    /\ UNCHANGED <<apiVars, uiVars, serverVars, projectionVars>>

\* the body was read: lines 141-150, then simulateAnalysisSequence up to its
\* timer (lines 77, 91)
UploadBody ==
    /\ \E u \in DOMAIN uploads, payload \in UploadPayloads :
          /\ uploads[u].pc = "json"
          /\ analysisStore' = setPhase(KeepPayload(analysisStore, payload), "analyzing")
          /\ uploads' = [uploads EXCEPT ![u] =
                [pc |-> "timer2000",
                 coords |-> Some(OrElse(extractCoordinates(payload),
                                        Some(FALLBACK_COORDINATES))[1]),
                 outcome |-> "ok",
                 payload |-> payload]]
    /\ UNCHANGED <<apiVars, uiVars, serverVars, projectionVars>>

\* the timer of 2000 ms fires (lines 91-97)
TargetTimer ==
    /\ \E u \in DOMAIN uploads :
          /\ uploads[u].pc = "timer2000"
          /\ analysisStore' = setPhase(setTarget(analysisStore, uploads[u].coords), "targeting")
          /\ uploads' = [uploads EXCEPT ![u].pc = "timer2600"]
    /\ UNCHANGED <<apiVars, uiVars, serverVars, projectionVars>>

\* the timer of 2600 ms fires (lines 94-96)
AcquiredTimer ==
    /\ \E u \in DOMAIN uploads :
          /\ uploads[u].pc = "timer2600"
          /\ analysisStore' = setPhase(analysisStore, "acquired")
          /\ uploads' = [uploads EXCEPT ![u].pc = "done"]
    /\ UNCHANGED <<apiVars, uiVars, serverVars, projectionVars>>

UploadSteps ==
    \/ UploadFails \/ UploadRejected \/ UploadResponds \/ UploadBody
    \/ TargetTimer \/ AcquiredTimer

UploadNext == ChooseFile \/ UploadSteps

ScanNext == ChooseFileAlone \/ UploadSteps

(***************************************************************************)
(* The projections of a latitude and a longitude onto the globe             *)
(* (src/ui/src/components/GlobeScene.tsx:34-43, src/unnamed/part_001:67-76, *)
(* src/ui/src/components/Satellite.tsx:73-81).  Angles are in degrees, in   *)
(* steps of 30, so that sines and cosines are exact: a value is             *)
(* (rat + root * sqrt(3)) / 2 for a sine, and over 4 for a product of two.  *)
(* Radii are in 1/1000.                                                     *)
(***************************************************************************)
Surd(rat, root) == [rat |-> rat, root |-> root]

\* twice the sine of 0, 30, ..., 330 degrees
SineTable ==
    << Surd(0, 0), Surd(1, 0), Surd(0, 1), Surd(2, 0), Surd(0, 1), Surd(1, 0),
       Surd(0, 0), Surd(-1, 0), Surd(0, -1), Surd(-2, 0), Surd(0, -1), Surd(-1, 0) >>

\* Math.sin and Math.cos of an angle given in degrees
MathSin(degrees) == SineTable[((((degrees % 360) + 360) % 360) \div 30) + 1]
MathCos(degrees) == MathSin(degrees + 90)

\* the product of two sines or cosines, over 4
Times(u, v) ==
    Surd(u.rat * v.rat + 3 * u.root * v.root, u.rat * v.root + u.root * v.rat)

\* one sine or cosine, over 4
Single(u) == Surd(2 * u.rat, 2 * u.root)

Scale(radius, u) == Surd(radius * u.rat, radius * u.root)
Negate(u) == Surd(0 - u.rat, 0 - u.root)

Vector3(x, y, z) == [x |-> x, y |-> y, z |-> z]

\* latLonToVector3 (GlobeScene.tsx:34-43)
latLonToVector3(lat, lon, radius) ==
    LET phi == 90 - lat
        theta == lon + 180
    IN  Vector3(Negate(Scale(radius, Times(MathSin(phi), MathCos(theta)))),
                Scale(radius, Single(MathCos(phi))),
                Scale(radius, Times(MathSin(phi), MathSin(theta))))

\* latLonToCartesian (part_001:67-76)
latLonToCartesian(latitude, longitude, radius) ==
    Vector3(Scale(radius, Times(MathCos(latitude), MathCos(longitude))),
            Scale(radius, Single(MathSin(latitude))),
            Scale(radius, Times(MathCos(latitude), MathSin(longitude))))

\* targetVec of the satellite's beam (Satellite.tsx:73-81)
SatelliteTargetVec(target) ==
    Vector3(Scale(SATELLITE_TARGET_RADIUS,
                  Times(MathCos(target.latitude), MathCos(target.longitude))),
            Scale(SATELLITE_TARGET_RADIUS, Single(MathSin(target.latitude))),
            Scale(SATELLITE_TARGET_RADIUS,
                  Times(MathCos(target.latitude), MathSin(target.longitude))))

Latitudes == {-90, -60, -30, 0, 30, 60, 90}
Longitudes == {-180, -150, -120, -90, -60, -30, 0, 30, 60, 90, 120, 150, 180}
Radii == {1000, 1600, SATELLITE_TARGET_RADIUS}

ProjectionStart ==
    /\ place = [latitude |-> 0, longitude |-> 0, radius |-> 1000]
    /\ projected = None

\* a place on the globe and a radius are given
ChoosePlace ==
    /\ projected = None
    /\ \E latitude \in Latitudes, longitude \in Longitudes, radius \in Radii :
          place' = [latitude |-> latitude, longitude |-> longitude, radius |-> radius]
    /\ UNCHANGED projected
    /\ UNCHANGED <<apiVars, uiVars, serverVars, uploadVars>>

\* the place is projected by each of the three
Project ==
    /\ projected = None
    /\ projected' = Some([vector3 |-> latLonToVector3(place.latitude, place.longitude,
                                                      place.radius),
                          cartesian |-> latLonToCartesian(place.latitude, place.longitude,
                                                          place.radius),
                          targetVec |-> SatelliteTargetVec(place)])
    /\ UNCHANGED place
    /\ UNCHANGED <<apiVars, uiVars, serverVars, uploadVars>>

ProjectionNext == ChoosePlace \/ Project

(***************************************************************************)
(* Specifications.  Each one runs one part of the program from its start   *)
(* state; the other parts stay where they start.                           *)
(***************************************************************************)
Init ==
    /\ TleStart /\ PassStart /\ GetStart /\ SearchStart /\ GlobeStart
    /\ ProviderStart /\ RecentStart /\ ServerStart /\ UploadStart /\ ProjectionStart

SpecTle == Init /\ [][TleNext]_vars

SpecPass == Init /\ [][PassNext]_vars

SpecRank == Init /\ [][RankNext]_vars

SpecGet == Init /\ [][GetNext]_vars

SpecSearch == Init /\ [][SearchNext]_vars

SpecGlobe == Init /\ [][GlobeNext]_vars

SpecWeather == Init /\ [][WeatherNext]_vars

SpecTimeline == Init /\ [][TimelineNext]_vars

SpecArcs == Init /\ [][ArcsNext]_vars
SpecProvider == Init /\ [][ProviderNext]_vars
SpecStore == Init /\ [][StoreNext]_vars
SpecRecent == Init /\ [][RecentNext]_vars
\* the playback interval fires every 6 seconds for as long as it is set
SpecPlayback == Init /\ [][ProviderNext]_vars /\ WF_vars(PlaybackTick)
SpecServer == Init /\ [][ServerNext]_vars
SpecProjection == Init /\ [][ProjectionNext]_vars
SpecUpload == Init /\ [][UploadNext]_vars
\* files are chosen one after the other; a fetch settles, a body read ends
\* and a timer that was set fires
SpecScan ==
    /\ Init /\ [][ScanNext]_vars
    /\ WF_vars(UploadFails \/ UploadRejected \/ UploadResponds)
    /\ WF_vars(UploadBody) /\ WF_vars(TargetTimer) /\ WF_vars(AcquiredTimer)

(***************************************************************************)
(* Claims about parseTleSets.                                              *)
(***************************************************************************)
NumTriplets == CountKind(tleBlocks, "triplet")

\* the records of the triplets the text was composed of, in source order
SourceTriplets ==
    [i \in 1..NumTriplets |->
        [name |-> TripletLines(i)[1], line1 |-> TripletLines(i)[2], line2 |-> TripletLines(i)[3]]]

\* every line outside the triplets is blank or plain garbage
OnlyGarbageBetween ==
    \A i \in DOMAIN tleBlocks :
        tleBlocks[i].kind = "free" => tleBlocks[i].lines[1] \in {BlankLine, GarbageLine}

\* the number of non-blank lines before block p
NonBlankBefore(p) ==
    3 * Cardinality({i \in 1..(p - 1) : tleBlocks[i].kind = "triplet"})
    + Cardinality({i \in 1..(p - 1) :
          tleBlocks[i].kind = "free" /\ Trim(tleBlocks[i].lines[1]) # <<>>})

\* every triplet starts at a window boundary of the non-blank lines
TripletsAligned ==
    \A p \in DOMAIN tleBlocks :
        tleBlocks[p].kind = "triplet" => NonBlankBefore(p) % 3 = 0

NonEmptyLine(line) == line # <<>>
RefLines(text) == SelectSeq([i \in DOMAIN text |-> Trim(text[i])], NonEmptyLine)
RefWindowOk(lines, j) ==
    /\ StartsWith(lines[3 * j + 2], <<"1", " ">>)
    /\ StartsWith(lines[3 * j + 3], <<"2", " ">>)
RefAccepted(lines) == {j \in 0..((Len(lines) \div 3) - 1) : RefWindowOk(lines, j)}
RefRank(lines, j) == Cardinality({k \in RefAccepted(lines) : k < j}) + 1
RefWindowAt(lines, r) == CHOOSE j \in RefAccepted(lines) : RefRank(lines, j) = r
RefParse(text) ==
    LET lines == RefLines(text)
        n == Cardinality(RefAccepted(lines))
        kept == IF n < SATELLITE_SAMPLE_COUNT THEN n ELSE SATELLITE_SAMPLE_COUNT
    IN  [r \in 1..kept |->
            LET j == RefWindowAt(lines, r)
            IN  [name |-> lines[3 * j + 1], line1 |-> lines[3 * j + 2],
                 line2 |-> lines[3 * j + 3]]]

\* C7: parseTleSets returns the accepted windows [3j, 3j+1, 3j+2] of the
\* trimmed non-empty lines, in order, up to the first 6 (a rejected window
\* moves the scan on by three lines); it returns at most 6 records, each with
\* line1 starting "1 " and line2 starting "2 ".
C7_FixedWindows ==
    tlePc = "done" =>
        /\ tleSets = RefParse(tleText)
        /\ Len(tleSets) <= SATELLITE_SAMPLE_COUNT
        /\ \A i \in DOMAIN tleSets :
              /\ StartsWith(tleSets[i].line1, <<"1", " ">>)
              /\ StartsWith(tleSets[i].line2, <<"2", " ">>)

\* the scan stopped at the cap with a triplet left over, after accepting a
\* window that begins with a garbage line
C7_Witness ==
    /\ tlePc = "done"
    /\ NumTriplets = SATELLITE_SAMPLE_COUNT + 1
    /\ Len(tleSets) = SATELLITE_SAMPLE_COUNT
    /\ tleSets[1].name = GarbageLine

(***************************************************************************)
(* Claims about computeSatellitePasses.                                    *)
(***************************************************************************)
\* the samples of a track that have a position, among k = 0..120
FixedSamples(track) ==
    {k \in 0..120 : Sample(track, k * 60).position}

\* the least sampled distance of a track that has a positioned sample
MinSampled(track) ==
    CHOOSE d \in {Sample(track, k * 60).distance : k \in FixedSamples(track)} :
        \A k \in FixedSamples(track) : d <= Sample(track, k * 60).distance

\* d (0.01 km) to the nearest 0.1 km, in 0.1 km
NearestTenth(d) ==
    CHOOSE t \in {d \div 10, d \div 10 + 1} : 10 * t - d <= 5 /\ d - 10 * t < 5

TrackOfRecord(tle) == TrackOf(tle.line1[3])

\* C1: for a single record, the pass emitted reports the minimum of the
\* sampled distances over the samples now + k*60 s, k = 0..120, rounded to
\* 0.1 km, and the time of a sample attaining it; so distanceKm >= 0 and
\* passTime is within [now, now + 2 h].  The track whose minimum of 10 km is
\* at sample 42 gives exactly one pass, at now + 42 min.
C1_MinimumOfSamples ==
    (passPc = "done" /\ Len(tles) = 1) =>
        LET track == TrackOfRecord(tles[1])
        IN  /\ Len(passes) <= 1
            /\ \A i \in DOMAIN passes :
                  /\ FixedSamples(track) # {}
                  /\ passes[i].distanceKm = NearestTenth(MinSampled(track))
                  /\ \E k \in FixedSamples(track) :
                        /\ Sample(track, k * 60).distance = MinSampled(track)
                        /\ passes[i].passTime = k * 60
                  /\ passes[i].distanceKm >= 0
                  /\ passes[i].passTime >= 0 /\ passes[i].passTime <= 7200
            /\ tles[1] = TleRecord("a") =>
                  /\ Len(passes) = 1
                  /\ passes[1].distanceKm = 100
                  /\ passes[1].passTime = 42 * 60

\* a single record whose only positioned sample is the last one, k = 120,
\* came back as a pass at now + 2 h
C1_Witness ==
    /\ passPc = "done" /\ Len(tles) = 1 /\ Len(passes) = 1
    /\ FixedSamples(TrackOfRecord(tles[1])) = {120}
    /\ passes[1].passTime = 7200

\* C2: a single record with a positioned sample and a minimum of at most
\* 2500 km (2500 km itself included) produces exactly one pass; it is
\* discarded only when its minimum exceeds 2500 km.
C2_RadiusInclusive ==
    (passPc = "done" /\ Len(tles) = 1) =>
        LET track == TrackOfRecord(tles[1])
        IN  (~track.throws /\ FixedSamples(track) # {}) =>
              /\ MinSampled(track) <= 250000 => Len(passes) = 1
              /\ Len(passes) = 0 => MinSampled(track) > 250000

CountIn(list, x) == Cardinality({i \in DOMAIN list : list[i] = x})

\* the passes of the records that pass the filter of line 125
Qualifying == CollectPasses(tles)

\* C4: the list returned has at most 5 entries, is in non-decreasing order
\* of distanceKm, holds min(5, number of qualifying passes) of the qualifying
\* passes, and every qualifying pass left out is at least as far as every
\* pass returned.
C4_FiveClosest ==
    passPc = "done" =>
        LET all == Qualifying
        IN  /\ Len(passes) <= 5
            /\ \A i, j \in DOMAIN passes :
                  i < j => passes[i].distanceKm <= passes[j].distanceKm
            /\ Len(passes) = (IF Len(all) < 5 THEN Len(all) ELSE 5)
            /\ \A i \in DOMAIN passes : CountIn(passes, passes[i]) <= CountIn(all, passes[i])
            /\ \A q \in DOMAIN all :
                  CountIn(passes, all[q]) < CountIn(all, all[q]) =>
                      \A i \in DOMAIN passes : passes[i].distanceKm <= all[q].distanceKm

\* six records qualify at four or more distances, and one was left out
C4_Witness ==
    /\ passPc = "done"
    /\ Len(passes) = 5
    /\ passes[5].distanceKm > passes[1].distanceKm
    /\ Len(Qualifying) = 6
    /\ Cardinality({Qualifying[q].distanceKm : q \in DOMAIN Qualifying}) >= 4

\* the records of tles in the order of their letters: one ordering of the
\* set, the same for every list of the same records
RECURSIVE InsertByLetter(_, _)
InsertByLetter(sorted, tle) ==
    IF sorted = <<>> THEN <<tle>>
    ELSE IF LetterIndex(OrbitLetter(tle)) < LetterIndex(OrbitLetter(Head(sorted)))
    THEN <<tle>> \o sorted
    ELSE <<Head(sorted)>> \o InsertByLetter(Tail(sorted), tle)

RECURSIVE ByLetter(_)
ByLetter(list) ==
    IF list = <<>> THEN <<>> ELSE InsertByLetter(ByLetter(Tail(list)), Head(list))

DistancesOf(list) == [i \in DOMAIN list |-> list[i].distanceKm]

\* no two qualifying records of tles have the same distanceKm
NoEqualDistances ==
    LET all == Qualifying
    IN  \A p, q \in DOMAIN all : p # q => all[p].distanceKm # all[q].distanceKm

\* C5 as stated: the list of records and the same records in another order
\* (here: the order of their letters) give the same sequence of passes,
\* entry by entry, whatever the distances.
C5_AnyOrderSameResult ==
    passPc = "done" => passes = computeSatellitePasses(ByLetter(tles))

\* C5 amended: the sequence of distanceKm values returned is the same for
\* every ordering of the records, and when no two qualifying records have the
\* same distanceKm the returned passes are identical entry by entry.  (Every
\* list is compared with the letter-ordered list of the same records, so any
\* two orderings of a set agree with each other.)
C5_SameDistancesAnyOrder ==
    passPc = "done" =>
        LET other == computeSatellitePasses(ByLetter(tles))
        IN  /\ DistancesOf(passes) = DistancesOf(other)
            /\ passes # other => ~NoEqualDistances

\* six records at six different distances, given farthest first, came back
\* as the five closest
C5_Witness ==
    /\ passPc = "done"
    /\ Len(tles) = 6 /\ Len(passes) = 5
    /\ OrbitLetter(tles[1]) = "e"
    /\ NoEqualDistances
    /\ tles # ByLetter(tles)

(***************************************************************************)
(* Claims about the location-info GET handler.                             *)
(***************************************************************************)
\* the element sets whose track has a positioned sample and a minimum
\* sampled distance above 2500 km
OutOfRangeLetters ==
    {Letters[i] : i \in {j \in DOMAIN Letters :
        LET track == TrackOf(Letters[j])
        IN  ~track.throws /\ FixedSamples(track) # {} /\ MinSampled(track) > 250000}}

OutOfRange(tle) == OrbitLetter(tle) \in OutOfRangeLetters

InRange(tle) == ~OutOfRange(tle)

\* the records the handler parsed from the TLE feed
ReceivedSets == parseTleSets(ReceivedTleText(feedStatus, tleText))

AllFeedsOk == \A f \in Feeds : feedStatus[f] = "ok"

WellFormed(feature) == feature.geometry /\ feature.numeric

WellFormedFeatures == \A i \in DOMAIN usgsFeatures : WellFormed(usgsFeatures[i])

\* C3: a record whose minimum sampled distance exceeds 2500 km contributes
\* no pass and does so silently: the response is the one the handler gives
\* for the same request without those records (same status, same passes of
\* the other records), no satellite of the response comes from such a
\* record, and with all feeds healthy the response is a success.
C3_OutOfRangeSilent ==
    getPc = "done" =>
        LET received == ReceivedSets
        IN  /\ response = LocationInfo(reqParams, feedStatus, reverseElevation,
                                       usgsFeatures, SelectSeq(received, InRange))
            /\ response.status = 200 =>
                  \A i \in DOMAIN response.body.satellites :
                      \A r \in DOMAIN received :
                          OutOfRange(received[r]) =>
                              response.body.satellites[i].name # received[r].name
            /\ (reqParams = "ok" /\ AllFeedsOk /\ WellFormedFeatures) =>
                  response.status = 200

\* a successful response to a request whose TLE feed held a record beyond
\* 2500 km among records in range
C3_Witness ==
    /\ getPc = "done"
    /\ response.status = 200
    /\ \E r \in DOMAIN tleSets : OutOfRange(tleSets[r])
    /\ Len(response.body.satellites) >= 2
    /\ Len(response.body.satellites) < Len(tleSets)

FailedFeeds == {f \in Feeds : feedStatus[f] # "ok"}

\* the body of the response when every feed answers
HealthyBody ==
    ResponseBody([f \in Feeds |-> "ok"], reverseElevation, usgsFeatures,
                 parseTleSets(tleText))

\* the body expected when feed f alone is down: only its category is empty
DegradedBody(f) ==
    CASE f = "reverse" ->
            [HealthyBody EXCEPT !.country = None, !.region = None, !.timezone = None,
                                !.population = None, !.elevation = TopoElevation]
      [] f = "weather" ->
            [HealthyBody EXCEPT !.weather = [temperature |-> None, windspeed |-> None,
                                             precipitation |-> None, description |-> None]]
      [] f = "topo" ->
            [HealthyBody EXCEPT !.elevation = ReverseResult(reverseElevation).elevation]
      [] f = "usgs" -> [HealthyBody EXCEPT !.alerts = <<>>]
      [] OTHER -> [HealthyBody EXCEPT !.satellites = <<>>]

\* C8: when exactly one of the five feeds fails, by a network error or by a
\* non-OK status, and the others succeed, the handler still answers with a
\* success whose only empty category is the one of the failed feed.
C8_EachFeedFailsAlone ==
    (getPc = "done" /\ reqParams = "ok" /\ WellFormedFeatures
        /\ Cardinality(FailedFeeds) = 1) =>
        /\ response.status = 200
        /\ \A f \in FailedFeeds : response.body = DegradedBody(f)

\* C9: a seismic event without a geometry, or with non-numeric coordinates,
\* is skipped: the request succeeds and the alerts are those of the other
\* events.
C9_MalformedEventSkipped ==
    (getPc = "done" /\ reqParams = "ok" /\ AllFeedsOk) =>
        /\ response.status = 200
        /\ response.body.alerts = AlertsOf(SelectSeq(usgsFeatures, WellFormed))

(***************************************************************************)
(* Claims about the search effect.                                         *)
(***************************************************************************)
\* C10: once the input has changed, searchResults is never replaced
\* (setSearchResults) or patched (updateSearchResult) by the request of a
\* previous input: whoever wrote searchResults last was, at that moment, the
\* request of the mounted effect (or the reset of a short input), under every
\* interleaving of fetch completions and input changes.
C10_NoSupersededWrite == lastWrite.by = lastWrite.during

\* an input change aborted a request whose fetches were in flight, and a
\* later request has replaced and patched searchResults
C10_Witness ==
    /\ \E r \in DOMAIN requests :
          /\ r < current
          /\ requests[r].aborted
          /\ requests[r].phase = "done"
          /\ requests[r].sub # <<>>
          /\ \E i \in DOMAIN requests[r].sub : requests[r].sub[i].phase = "done"
    /\ current # 0
    /\ lastWrite.by = current
    /\ \E i \in DOMAIN searchResults : searchResults[i].weather # None

(***************************************************************************)
(* Claims about the aggregation of the globe store.                        *)
(***************************************************************************)
SiteSucceeded(i) == siteOutcome[i] \in {"full", "bare"}

RECURSIVE SucceededFrom(_)
\* the ids of the sites from i on whose fetch succeeded, in site-list order
SucceededFrom(i) ==
    IF i > Len(WEATHER_SAMPLE_LOCATIONS) THEN <<>>
    ELSE (IF SiteSucceeded(i) THEN <<WEATHER_SAMPLE_LOCATIONS[i].id>> ELSE <<>>)
         \o SucceededFrom(i + 1)

IdsOf(list) == [i \in DOMAIN list |-> list[i].id]

\* C11: whichever sites' fetches fail (rejected or non-OK), loadGlobeData
\* completes, and heatmapPoints and weatherCells hold exactly one entry per
\* site whose fetch succeeded, in site-list order; when every fetch fails
\* heatmapPoints, weatherCells and routeArcs are empty and the timeline has
\* its 6 events.
C11_FailedSitesDropped ==
    globePc = "done" =>
        /\ IdsOf(heatmapPoints) = SucceededFrom(1)
        /\ IdsOf(weatherCells) = SucceededFrom(1)
        /\ \A i \in Sites :
              ~SiteSucceeded(i) =>
                  /\ \A h \in DOMAIN heatmapPoints :
                        heatmapPoints[h].id # WEATHER_SAMPLE_LOCATIONS[i].id
                  /\ \A c \in DOMAIN weatherCells :
                        weatherCells[c].id # WEATHER_SAMPLE_LOCATIONS[i].id
        /\ (\A i \in Sites : ~SiteSucceeded(i)) =>
              /\ heatmapPoints = <<>>
              /\ weatherCells = <<>>
              /\ routeArcs = <<>>
              /\ Len(timeline) = 6

\* a load in which one fetch was rejected, another answered non-OK, and the
\* other sites came through
C11_Witness ==
    /\ globePc = "done"
    /\ \E i, j \in Sites : siteOutcome[i] = "network_error" /\ siteOutcome[j] = "http_error"
    /\ Len(heatmapPoints) >= 2
    /\ Len(heatmapPoints) < Len(WEATHER_SAMPLE_LOCATIONS)
    /\ Len(weatherCells) = Len(heatmapPoints)

\* C12: the status of every cell is the first match of the chain: storm if
\* precipitation >= 8 and windspeed >= 12, else rain if precipitation >= 2,
\* else wind if windspeed >= 12, else cloudy if cloudcover >= 45, else clear;
\* the thresholds are inclusive (values in tenths).
C12_PriorityChain ==
    /\ globePc = "done" =>
          \A i \in DOMAIN observations :
              LET p == observations[i].precipitation
                  w == observations[i].windspeed
                  c == observations[i].cloudcover
                  status == weatherCells[i].status
              IN  /\ status \in {"storm", "rain", "wind", "cloudy", "clear"}
                  /\ status = "storm" <=> (p >= 80 /\ w >= 120)
                  /\ status = "rain" <=> (~(p >= 80 /\ w >= 120) /\ p >= 20)
                  /\ status = "wind" <=> (p < 20 /\ w >= 120)
                  /\ status = "cloudy" <=> (p < 20 /\ w < 120 /\ c >= 450)
                  /\ status = "clear" <=> (p < 20 /\ w < 120 /\ c < 450)
    /\ classifyWeather([precipitation |-> 80, windspeed |-> 120, cloudcover |-> 0]) = "storm"
    /\ classifyWeather([precipitation |-> 80, windspeed |-> 110, cloudcover |-> 0]) = "rain"
    /\ classifyWeather([precipitation |-> 100, windspeed |-> 150, cloudcover |-> 0]) = "storm"
    /\ classifyWeather([precipitation |-> 0, windspeed |-> 0, cloudcover |-> 0]) = "clear"

\* a batch with precipitation 8 at windspeed 12 (storm) and precipitation 8 at
\* windspeed 11.9 (rain) was classified
C12_Witness ==
    /\ globePc = "done"
    /\ \E i, j \in DOMAIN observations :
          /\ observations[i].precipitation = 80 /\ observations[i].windspeed = 120
          /\ weatherCells[i].status = "storm"
          /\ observations[j].precipitation = 80 /\ observations[j].windspeed = 119
          /\ weatherCells[j].status = "rain"

\* n / d = Math.min(1, hundredths / 100 / 20)
IsCappedTwentieth(severity, hundredths) ==
    /\ severity.den > 0
    /\ IF hundredths >= 2000
       THEN severity.num = severity.den
       ELSE severity.num * 2000 = hundredths * severity.den

\* C13: the severity of every cell is min(1, (precipitation + 0.4 windspeed)
\* / 20) for storm, min(1, precipitation / 20) for rain, min(1, windspeed /
\* 20) for wind, min(1, cloudcover / 20) for cloudy and 0.25 for clear; so it
\* is within [0, 1] (observations in tenths, so the bases are in hundredths).
C13_SeverityFormula ==
    globePc = "done" =>
        \A i \in DOMAIN weatherCells :
            LET p == observations[i].precipitation
                w == observations[i].windspeed
                c == observations[i].cloudcover
                status == weatherCells[i].status
                severity == weatherCells[i].severity
            IN  /\ status = "storm" => IsCappedTwentieth(severity, 10 * p + 4 * w)
                /\ status = "rain" => IsCappedTwentieth(severity, 10 * p)
                /\ status = "wind" => IsCappedTwentieth(severity, 10 * w)
                /\ status = "cloudy" => IsCappedTwentieth(severity, 10 * c)
                /\ status = "clear" => severity.num * 4 = severity.den
                /\ severity.den > 0
                /\ 0 <= severity.num /\ severity.num <= severity.den

\* a storm below the cap (precipitation 8, windspeed 12: 0.64) next to a
\* storm at the cap
C13_Witness ==
    /\ globePc = "done"
    /\ \E i, j \in DOMAIN weatherCells :
          /\ weatherCells[i].status = "storm"
          /\ weatherCells[i].severity.num * 100 = 64 * weatherCells[i].severity.den
          /\ weatherCells[j].status = "storm"
          /\ weatherCells[j].severity.num = weatherCells[j].severity.den

Temperatures == {observations[i].temperature : i \in DOMAIN observations}

Coldest == CHOOSE t \in Temperatures : \A u \in Temperatures : t <= u

Hottest == CHOOSE t \in Temperatures : \A u \in Temperatures : t >= u

\* C14: loadHeatmapData min-max normalises the temperature over the batch:
\* every intensity is a number within [0, 1], (temperature - min) / (max -
\* min) when the temperatures differ, so 0 for the coldest site and 1 for the
\* hottest; every intensity is exactly 0 when all temperatures are equal; an
\* empty batch gives an empty list.  normalize(v, min, max) is 0 whenever
\* min = max.
C14_MinMaxNormalised ==
    /\ globePc = "done" =>
          /\ Len(heatmapPoints) = Len(observations)
          /\ \A i \in DOMAIN heatmapPoints :
                LET intensity == heatmapPoints[i].intensity
                    t == observations[i].temperature
                IN  /\ intensity.den > 0
                    /\ 0 <= intensity.num /\ intensity.num <= intensity.den
                    /\ intensity.num * (Hottest - Coldest)
                          = (t - Coldest) * intensity.den
                          \/ Hottest = Coldest
                    /\ t = Coldest => intensity.num = 0
                    /\ (t = Hottest /\ Hottest # Coldest) => intensity.num = intensity.den
                    /\ Hottest = Coldest => intensity.num = 0
    /\ \A v \in -2..2, m \in -2..2 :
          normalize(v, m, m).num = 0 /\ normalize(v, m, m).den > 0

\* a batch of several observations with one and the same temperature
C14_Witness ==
    /\ globePc = "done"
    /\ Len(heatmapPoints) >= 2
    /\ Hottest = Coldest
    /\ \A i \in DOMAIN heatmapPoints : heatmapPoints[i].intensity.num = 0

\* C15: for 6 or more points buildRouteArcs returns six arcs, one for each
\* index i in 0..5 in that order, from sorted[i] to sorted[(i + 2) mod 6],
\* sorted being the top 6 by descending intensity; the intensities .9, .5,
\* .7, .3, .6, .2 give (.9->.6), (.7->.5), (.6->.3), (.5->.2), (.3->.9),
\* (.2->.7).
C15_SixArcs ==
    (globePc = "done" /\ Len(heatmapPoints) >= 6) =>
        LET sorted == TopSix(SortByIntensity(heatmapPoints))
        IN  /\ Len(sorted) = 6
            /\ \A i \in 1..5 : ~FracLess(sorted[i].intensity, sorted[i + 1].intensity)
            /\ Len(routeArcs) = 6
            /\ \A i \in 0..5 :
                  routeArcs[i + 1].id = sorted[i + 1].id \o "-" \o sorted[((i + 2) % 6) + 1].id
            /\ IdsOf(heatmapPoints) = <<"h1", "h2", "h3", "h4", "h5", "h6">> =>
                  IdsOf(routeArcs) = <<"h1-h5", "h3-h2", "h5-h4", "h2-h6", "h4-h1", "h6-h3">>

\* C16: for every list of cells, the empty one included, loadTimeline returns
\* exactly 6 events, event-0 .. event-5, at now - 6 h, - 3 h, now, + 3 h,
\* + 6 h, + 9 h in that order (timestamps in ms after now, strictly
\* increasing), the third labelled "Now".
C16_SixFixedEvents ==
    globePc = "done" =>
        /\ Len(timeline) = 6
        /\ IdsOf(timeline) = <<"event-0", "event-1", "event-2", "event-3", "event-4", "event-5">>
        /\ [i \in DOMAIN timeline |-> timeline[i].timestamp]
              = <<-21600000, -10800000, 0, 10800000, 21600000, 32400000>>
        /\ \A i \in 1..5 : timeline[i].timestamp < timeline[i + 1].timestamp
        /\ timeline[3].label = "Now"
        /\ \A i \in DOMAIN timeline : i # 3 => timeline[i].label # "Now"

\* the timeline of an empty list of cells
C16_Witness ==
    /\ globePc = "done"
    /\ weatherCells = <<>>
    /\ Len(timeline) = 6
    /\ timeline[1].label = "-6h" /\ timeline[6].label = "+9h"

InUnitInterval(f) == f.den > 0 /\ 0 <= f.num /\ f.num <= f.den

RECURSIVE SeveritySum(_)
\* the sum of the severities of cells, in 1/2000
SeveritySum(cells) ==
    IF cells = <<>> THEN 0
    ELSE Head(cells).severity.num + SeveritySum(Tail(cells))

\* f = min(1, sum / (2000 * count) + index * hundredths / 100), both sides
\* times 2000 * count
IsMeanPlusRamp(f, sum, count, index, hundredths) ==
    /\ f.den > 0
    /\ IF sum + index * hundredths * 20 * count >= 2000 * count
       THEN f.num = f.den
       ELSE f.num * 2000 * count = (sum + index * hundredths * 20 * count) * f.den

\* the cells with everything but their severity replaced
SeveritiesOnly(cells) ==
    [i \in DOMAIN cells |->
        [id |-> "any", latitude |-> 0, longitude |-> 0, status |-> "storm",
         severity |-> cells[i].severity, multipliers |-> <<FracZero, FracZero>>]]

\* C17: for cells with severities in [0, 1] every overlay multiplier of every
\* event is in [0, 1]; the heatmap and weather multipliers of event i are the
\* mean severity (0 for no cell) plus 0.05 i and 0.08 i, capped at 1, and
\* depend on nothing but the severities.
C17_MultipliersInUnitInterval ==
    globePc = "done" =>
        LET count == IF Len(weatherCells) > 1 THEN Len(weatherCells) ELSE 1
            sum == SeveritySum(weatherCells)
            again == loadTimeline(SeveritiesOnly(weatherCells))
        IN  \A i \in DOMAIN timeline :
                LET m == timeline[i].overlayMultipliers
                IN  /\ InUnitInterval(m.heatmap)
                    /\ InUnitInterval(m.weather)
                    /\ InUnitInterval(m.routes)
                    /\ IsMeanPlusRamp(m.heatmap, sum, count, i - 1, 5)
                    /\ IsMeanPlusRamp(m.weather, sum, count, i - 1, 8)
                    /\ again[i].overlayMultipliers = m

\* cells of different severities whose mean is below 1 and whose last event
\* is capped at 1 on the weather channel only
C17_Witness ==
    /\ globePc = "done"
    /\ Len(weatherCells) >= 2
    /\ \E i, j \in DOMAIN weatherCells : weatherCells[i].severity # weatherCells[j].severity
    /\ timeline[6].overlayMultipliers.weather.num = timeline[6].overlayMultipliers.weather.den
    /\ timeline[6].overlayMultipliers.heatmap.num < timeline[6].overlayMultipliers.heatmap.den
    /\ timeline[1].overlayMultipliers.heatmap.num > 0

(***************************************************************************)
(* Further claims about the location-info GET handler, the closest-        *)
(* approach search and the search effect.                                  *)
(***************************************************************************)
\* C18: in every successful response each alert is at most 500 km from the
\* ground point, every event of the seismic feed with valid coordinates
\* within 500 km is among the alerts, and no event farther than 500 km is.
C18_AlertsWithinRadius ==
    (getPc = "done" /\ response.status = 200 /\ feedStatus["usgs"] = "ok") =>
        LET alerts == response.body.alerts
        IN  /\ \A a \in DOMAIN alerts :
                  /\ alerts[a].distanceKm # NOT_A_NUMBER
                  /\ alerts[a].distanceKm >= 0
                  /\ alerts[a].distanceKm <= 5000
            /\ \A f \in DOMAIN usgsFeatures :
                  (WellFormed(usgsFeatures[f]) /\ usgsFeatures[f].distance <= 50000) =>
                      \E a \in DOMAIN alerts : alerts[a].id = usgsFeatures[f].id
            /\ \A f \in DOMAIN usgsFeatures :
                  (WellFormed(usgsFeatures[f]) /\ usgsFeatures[f].distance > 50000) =>
                      \A a \in DOMAIN alerts : alerts[a].id # usgsFeatures[f].id

\* the element sets of which some samples have no position and some have one,
\* and whose least positioned sample is within the radius
PartlyPropagated ==
    {Letters[i] : i \in {j \in DOMAIN Letters :
        LET track == TrackOf(Letters[j])
        IN  /\ ~track.throws
            /\ FixedSamples(track) # {}
            /\ FixedSamples(track) # 0..120
            /\ MinSampled(track) < 250000}}

\* for each such element set: its least positioned distance, to 0.1 km, and
\* the sample times at which it is attained
ExpectedApproach ==
    [l \in PartlyPropagated |->
        LET track == TrackOf(l)
        IN  [distanceKm |-> NearestTenth(MinSampled(track)),
             times |-> {k * 60 : k \in {n \in FixedSamples(track) :
                            Sample(track, n * 60).distance = MinSampled(track)}}]]

\* C19: a record of which some samples fail to propagate and at least one
\* propagates still gives its pass, with the distance and time of the
\* minimum over the samples that propagated (checked for the records whose
\* minimum is within the radius; the pass is returned unless five closer
\* ones cut it).
C19_FailedSamplesSkipped ==
    passPc = "done" =>
        LET all == Qualifying
        IN  \A r \in DOMAIN tles :
                OrbitLetter(tles[r]) \in PartlyPropagated =>
                    LET expected == ExpectedApproach[OrbitLetter(tles[r])]
                        mine == {q \in DOMAIN all : all[q].name = tles[r].name}
                    IN  /\ mine # {}
                        /\ \A q \in mine :
                              /\ all[q].distanceKm = expected.distanceKm
                              /\ all[q].passTime \in expected.times
                        /\ Len(all) <= 5 =>
                              \E i \in DOMAIN passes : passes[i].name = tles[r].name

\* a record propagated at every sample but the one at minute 60, returned
\* with an earlier sample as its closest
C19_Witness ==
    /\ passPc = "done"
    /\ \E r \in DOMAIN tles :
          /\ OrbitLetter(tles[r]) \in PartlyPropagated
          /\ FixedSamples(TrackOfRecord(tles[r])) = (0..120) \ {60}
          /\ \E i \in DOMAIN passes :
                passes[i].name = tles[r].name /\ passes[i].passTime < 3600

\* the sub-fetch i of request r goes from one phase to another in this step,
\* which is not an input change
SubStep(r, i, from, to) ==
    /\ changes' = changes
    /\ r \in DOMAIN requests /\ i \in DOMAIN requests[r].sub
    /\ requests[r].sub[i].phase = from
    /\ requests'[r].sub[i].phase = to

SubSteps(from, to) ==
    {ri \in {<<r, i>> : r \in DOMAIN requests, i \in 1..3} : SubStep(ri[1], ri[2], from, to)}

\* the frame of updateSearchResult on the list results
PatchesOnlyId(results, id, patch) ==
    LET patched == updateSearchResult(results, id, patch)
    IN  /\ Len(patched) = Len(results)
        /\ \A j \in DOMAIN results :
              /\ patched[j].id = results[j].id
              /\ results[j].id # id => patched[j] = results[j]
              /\ results[j].id = id =>
                    /\ \A f \in DOMAIN patch : patched[j][f] = patch[f]
                    /\ \A f \in DOMAIN results[j] \ DOMAIN patch : patched[j][f] = results[j][f]
        /\ (\A j \in DOMAIN results : results[j].id # id) => patched = results

SomePatches ==
    {PatchOf(GeocodeItem(i), LocationInfoPayload(ResultIds[i])) : i \in DOMAIN ResultIds}

\* C20, the store: updateSearchResult(X, patch) changes only the entries with
\* id X, merging the patch into them, and nothing when no entry has id X.
C20_StoreFrame ==
    \A id \in {ResultIds[i] : i \in DOMAIN ResultIds} \cup {"absent"}, patch \in SomePatches :
        PatchesOnlyId(searchResults, id, patch)

\* C20, the effect: an enrichment response for a result patches the entry
\* of that result only; a failed enrichment fetch changes neither
\* searchResults nor searchError and leaves the other sub-fetches as they
\* were.
C20_EffectFrame ==
    /\ \A ri \in SubSteps("info_body", "done") :
          LET id == requests[ri[1]].sub[ri[2]].id
          IN  /\ Len(searchResults') = Len(searchResults)
              /\ \A j \in DOMAIN searchResults :
                    searchResults[j].id # id => searchResults'[j] = searchResults[j]
              /\ \A j \in DOMAIN searchResults :
                    searchResults[j].id = id =>
                       searchResults'[j]
                          = Merge(searchResults[j],
                                  PatchOf(GeocodeItem(ri[2]), LocationInfoPayload(id)))
              /\ searchError' = searchError
    /\ \A ri \in SubSteps("info", "done") :
          /\ searchResults' = searchResults
          /\ searchError' = searchError
          /\ \A i \in DOMAIN requests[ri[1]].sub :
                i # ri[2] => requests'[ri[1]].sub[i] = requests[ri[1]].sub[i]

\* C20: per-result enrichment is independent per result.
C20_IndependentEnrichment == [](C20_StoreFrame) /\ [][C20_EffectFrame]_vars

\* a finished request of two results: the enrichment of the first failed and
\* left its base fields, the second was enriched, and no error is set
C20_Witness ==
    /\ current # 0
    /\ requests[current].phase = "done"
    /\ ~requests[current].aborted
    /\ Len(searchResults) = 2
    /\ searchResults[1] = BaseResult(GeocodeItem(1))
    /\ searchResults[2].weather # None
    /\ searchError = None

\* C24: an aborted geocode request is not reported as a failure; after the
\* input is cleared to fewer than 3 characters, whatever was in flight, the
\* store holds searchError undefined, searchResults empty and searchLoading
\* false.
C24_AbortNotAnError ==
    TooShort(inputValue) =>
        /\ searchError = None
        /\ searchResults = <<>>
        /\ searchLoading = FALSE

\* C25: for 2 or more points with distinct ids every arc of buildRouteArcs
\* connects two different points, and its magnitude is the average of the
\* intensities of its two ends, so within [0, 1].
C25_ArcsJoinDistinctPoints ==
    (globePc = "done" /\ Len(heatmapPoints) >= 2) =>
        /\ routeArcs # <<>>
        /\ \A a \in DOMAIN routeArcs :
              /\ routeArcs[a].from.name # routeArcs[a].to.name
              /\ \E i, j \in DOMAIN heatmapPoints :
                    /\ i # j
                    /\ heatmapPoints[i].name = routeArcs[a].from.name
                    /\ heatmapPoints[j].name = routeArcs[a].to.name
                    /\ routeArcs[a].magnitude.num * 2 * heatmapPoints[i].intensity.den
                            * heatmapPoints[j].intensity.den
                          = routeArcs[a].magnitude.den
                            * (heatmapPoints[i].intensity.num * heatmapPoints[j].intensity.den
                               + heatmapPoints[j].intensity.num * heatmapPoints[i].intensity.den)
              /\ InUnitInterval(routeArcs[a].magnitude)

\* C26: after any sequence of setTimeline (any list, the empty one too),
\* setTimelineIndex (an integer or an updater), playback ticks and refresh
\* cycles, 0 <= timelineIndex <= max(length(timeline) - 1, 0).
C26_IndexInRange ==
    /\ 0 <= store.timelineIndex
    /\ store.timelineIndex <= MathMax(Len(store.timeline) - 1, 0)

\* a short timeline replaced the one of a refresh cycle while the playback
\* runs, and the index is at its last event
C26_Witness ==
    /\ Len(store.timeline) = 3
    /\ store.timelineIndex = 2
    /\ intervals # {}
    /\ \E c \in DOMAIN cycles : cycles[c].pc = "written"

Written == {c \in DOMAIN cycles : cycles[c].pc = "written"}

\* the store holds what one call of loadGlobeData returned
C27_OneSnapshot ==
    IF Written = {}
    THEN /\ store.heatmapPoints = <<>>
         /\ store.weatherCells = <<>>
         /\ store.routeArcs = <<>>
         /\ store.timeline = <<>>
    ELSE /\ \E c \in Written :
              /\ store.heatmapPoints = GlobeDataPool[cycles[c].data].heatmapPoints
              /\ store.weatherCells = GlobeDataPool[cycles[c].data].weatherCells
              /\ store.routeArcs = GlobeDataPool[cycles[c].data].routeArcs
              /\ store.timeline = GlobeDataPool[cycles[c].data].timeline
         /\ store.routeArcs = buildRouteArcs(store.heatmapPoints)

\* a cycle that completes resets the index; a cycle of a cleaned-up effect
\* writes nothing
C27_CycleStep ==
    \A c \in DOMAIN cycles :
        /\ (cycles[c].pc = "loading" /\ cycles'[c].pc = "written") => store'.timelineIndex = 0
        /\ (cycles[c].pc = "loading" /\ cycles'[c].pc = "ignored") => store' = store

\* C27: even when refresh cycles overlap, the store never holds a mixture of
\* two cycles: heatmapPoints, weatherCells, routeArcs and timeline all come
\* from one loadGlobeData call, routeArcs = buildRouteArcs(heatmapPoints),
\* and each completed cycle resets timelineIndex to 0.
C27_NoMixedCycles == [](C27_OneSnapshot) /\ [][C27_CycleStep]_vars

\* two cycles overlapped: the one started first wrote last, and the store
\* holds its data, which is not that of the other
C27_Witness ==
    \E c1, c2 \in Written :
        /\ c1 < c2
        /\ cycles[c1].data # cycles[c2].data
        /\ store.heatmapPoints = GlobeDataPool[cycles[c1].data].heatmapPoints
        /\ store.heatmapPoints # GlobeDataPool[cycles[c2].data].heatmapPoints
        /\ store.routeArcs # <<>>

\* the playback is on: the provider is mounted, isPlayingTimeline is true and
\* the timeline is not empty
Playing == Mounted /\ store.isPlayingTimeline /\ Len(store.timeline) > 0

\* at most one playback interval, and one only while the playback is on; it
\* steps through the timeline the store holds
C28_OneInterval ==
    /\ Cardinality(intervals) <= 1
    /\ (intervals # {}) <=> Playing
    /\ \A iv \in intervals : iv.length = Len(store.timeline)

\* a tick moves the index to the next event, and from the last one to 0
C28_TickStep ==
    PlaybackTick =>
        store'.timelineIndex =
            IF store.timelineIndex = Len(store.timeline) - 1 THEN 0
            ELSE store.timelineIndex + 1

\* while the playback stays on and the slider is left alone, every index
\* comes up again and again
C28_CyclesForever ==
    \A index \in 0..5 :
        \/ []<>(~Playing)
        \/ []<><<SlideTimeline>>_vars
        \/ []<>(store.timelineIndex = index)

\* C28: while isPlayingTimeline is true and the timeline is non-empty each
\* 6-second tick moves timelineIndex from i to i + 1 and from the last index
\* to 0, cycling forever; otherwise no tick changes it; at most one playback
\* interval is active at any time.
C28_Playback == [](C28_OneInterval) /\ [][C28_TickStep]_vars /\ C28_CyclesForever

\* the playback was switched on again after a refresh and stands at the last
\* event
C28_Witness ==
    /\ Playing
    /\ store.timelineIndex = Len(store.timeline) - 1
    /\ Cardinality(Written) >= 2
    /\ Len(ignore) = 2

\* C30: from an empty list, after any sequence of pushRecentQuery calls the
\* list has at most 15 entries, no two with the same id, the most recently
\* pushed first and the others in most-recent-first order.
C30_RecentQueries ==
    /\ Len(recentQueries) = MathMin(known, 15)
    /\ \A i, j \in DOMAIN recentQueries : i # j => recentQueries[i].id # recentQueries[j].id
    /\ pushes > 0 => recentQueries[1].call = pushes
    /\ \A i, j \in DOMAIN recentQueries : i < j => recentQueries[i].call > recentQueries[j].call

\* the list is full, an entry fell off its end and an id in it was pushed
\* again
C30_Witness ==
    /\ Len(recentQueries) = 15
    /\ known > 15
    /\ repushes > 0
    /\ recentQueries[1].id # "loc-" \o ToString(known)

\* C29: a POST is answered "already_running", and spawns nothing, exactly
\* when a server process started by an earlier POST is still running;
\* otherwise it spawns one and answers "started"; at most one spawned server
\* is alive at a time, and a POST after the server ended starts a new one.
C29_OneServer ==
    /\ Cardinality(Alive) <= 1
    /\ reply # None =>
          (reply[1].status = "already_running") <=> (atRequest.alive # {})

\* the port of an "already_running" answer is the port the running server was
\* started with
C29_PortOfRunningServer ==
    (reply # None /\ reply[1].status = "already_running" /\ atRequest.alive # {}) =>
        reply[1].port \in atRequest.alive

\* the uploads that ended the way C21 is about: the request failed with a
\* network error, or the response was OK and its payload held no numeric
\* coordinates
NoNumericCoordinates(payload) ==
    \/ payload = None
    \/ payload[1].analysis = None
    \/ /\ \A i \in DOMAIN payload[1].analysis[1].locations :
              ~NumericCoords(payload[1].analysis[1].locations[i].coordinates)
       /\ ~NumericCoords(payload[1].analysis[1].exif_gps)

FallbackCase(u) ==
    /\ u \in DOMAIN uploads
    /\ \/ uploads[u].outcome = "network_error"
       \/ uploads[u].outcome = "ok" /\ NoNumericCoordinates(uploads[u].payload)

\* the phase moves along uploading, analyzing, targeting, acquired
C21_PhaseStep ==
    analysisStore'.phase # analysisStore.phase =>
        <<analysisStore.phase, analysisStore'.phase>> \in
            { <<"idle", "uploading">>, <<"acquired", "uploading">>,
              <<"uploading", "analyzing">>, <<"uploading", "idle">>,
              <<"analyzing", "targeting">>, <<"targeting", "acquired">> }

\* once the sequence of such an upload set the target it is Tokyo, and it is
\* when the phase is acquired
C21_TokyoTarget ==
    \A u \in DOMAIN uploads :
        (FallbackCase(u) /\ u = Len(uploads)) =>
            /\ uploads[u].coords = Some(FALLBACK_COORDINATES)
            /\ analysisStore.phase \in {"targeting", "acquired"} =>
                  /\ analysisStore.target # None
                  /\ analysisStore.target[1].latitude = 356895
                  /\ analysisStore.target[1].longitude = 1396917
            /\ analysisStore.phase = "acquired" <=> uploads[u].pc = "done"

\* the sequence of such an upload runs to its end
C21_ReachesAcquired ==
    \A u \in 1..MaxUploads :
        (FallbackCase(u) /\ uploads[u].pc = "timer2000" /\ analysisStore.phase = "analyzing")
            ~> (/\ u \in DOMAIN uploads
                /\ uploads[u].pc = "done"
                /\ analysisStore.phase = "acquired"
                /\ analysisStore.target = Some(FALLBACK_COORDINATES))

\* C21: with no other upload in progress, if the upload request fails with a
\* network error or its OK response holds no numeric latitude and longitude,
\* the phase goes uploading, analyzing, targeting, acquired and the target
\* becomes Tokyo (35.6895, 139.6917) and is Tokyo when the phase is acquired.
C21_FallbackScan == [](C21_TokyoTarget) /\ [][C21_PhaseStep]_vars /\ C21_ReachesAcquired

\* the second upload, with a payload whose coordinates are not numbers, ended
\* at Tokyo after the first one had found coordinates
C21_Witness ==
    /\ Len(uploads) = 2
    /\ uploads[1].outcome = "ok" /\ ~NoNumericCoordinates(uploads[1].payload)
    /\ uploads[2].outcome = "ok" /\ NoNumericCoordinates(uploads[2].payload)
    /\ uploads[2].pc = "done"
    /\ analysisStore.analysis # None
    /\ analysisStore.phase = "acquired"
    /\ analysisStore.target = Some(FALLBACK_COORDINATES)

\* C23: whenever the phase is "acquired" the target is defined, for every
\* interleaving, also when a second file is chosen while the timers of an
\* earlier scan sequence are pending.
C23_AcquiredHasTarget ==
    analysisStore.phase = "acquired" => analysisStore.target # None

\* C22: for every latitude, longitude and radius latLonToVector3,
\* latLonToCartesian and the projection written out in Satellite give the
\* same point (x, y, z).
C22_SameProjection ==
    projected # None =>
        /\ projected[1].vector3 = projected[1].cartesian
        /\ place.radius = SATELLITE_TARGET_RADIUS =>
              projected[1].targetVec = projected[1].cartesian

\* what the three do agree on: x and y, and z up to its sign
C22_MirroredZ ==
    projected # None =>
        /\ projected[1].vector3.x = projected[1].cartesian.x
        /\ projected[1].vector3.y = projected[1].cartesian.y
        /\ projected[1].vector3.z = Negate(projected[1].cartesian.z)
        /\ place.radius = SATELLITE_TARGET_RADIUS =>
              projected[1].targetVec = projected[1].cartesian

====
